---- MODULE Spec2Model ----
(***************************************************************************)
(* Track Team Portal: the row policy of public.profiles, the assignment    *)
(* and result consistency rules and the account lifecycle, as state        *)
(* machines over the tables the application reads and writes.              *)
(***************************************************************************)
EXTENDS Integers, Sequences, FiniteSets, TLC

(* ------------------------------------------------------------------ *)
(* Domains                                                            *)
(* ------------------------------------------------------------------ *)

Users == {"u1", "u2", "u3", "u4"}
Roles == {"athlete", "coach", "assistant_coach"}
StaffRoles == {"coach", "assistant_coach"}
Names == {"Ann", "Bo"}
Null == "null"
NoRow == [absent |-> TRUE]
NoBan == 0 - 1                   \* banned_until of a principal that is not banned

VARIABLES
  profiles,      \* public.profiles: user_id -> row or NoRow
  authUsers,     \* auth.users: user_id -> principal or NoRow
  meet_events,   \* public.meet_events rows
  assignments,   \* public.assignments rows
  results,       \* public.results rows
  nextId,        \* next generated row id
  rlsLog,        \* the last statement run on profiles under the row policy
  calls,         \* operations started so far
  pc, req, me, existingRow, meetEvents, notice, error,   \* assignments screen, per session
  outcomeLog,    \* per session: what the last completed save saw, wrote and reported
  lastWrite,     \* per (meet_event_id, athlete_id): status of the last upsert written
  resolveLog,    \* per (meet, event name): ids returned by completed resolutions
  resError, resHist,    \* results screen: last error per session, outcomes per pair
  lastSave,             \* the last saveResult call: what it sent and what was stored
  sessions, now,  \* the principals holding a session; the clock, in hours
  acctLog,        \* the last sign-in or admin request: who asked, the gate's answer, the reply
  message_threads, message_thread_participants, messages,   \* the messaging tables
  inbox,          \* the mounted messages screen: me, threads, active thread, shown messages
  msgLog,         \* the last thread opened or created on the messages screen
  view,           \* the last listing, export or chat tool answer handed to a requester
  chat,           \* the chat screen's request: the handler's round, its response, the text shown
  rt              \* the messages screen under push events: the list shown, requests in flight

storeVars == <<profiles, authUsers, meet_events, assignments, results, nextId>>
assignVars == <<pc, req, me, existingRow, meetEvents, notice, error, outcomeLog, lastWrite,
                resolveLog>>
resultVars == <<resError, resHist, lastSave>>
accountVars == <<sessions, now, acctLog>>
messageVars == <<message_threads, message_thread_participants, messages, inbox, msgLog>>
clientVars == <<chat, rt>>
portalVars == <<messageVars, view, clientVars>>
vars == <<storeVars, calls, rlsLog, assignVars, resultVars, accountVars, portalVars>>

(* ------------------------------------------------------------------ *)
(* public.profiles and its row policies                               *)
(* ------------------------------------------------------------------ *)

ProfileRow(u, name, role, gender, email) ==
  [user_id |-> u, full_name |-> name, role |-> role, gender |-> gender, email |-> email]

\* The rows of the table.
ProfileRows == {profiles[u] : u \in {x \in Users : profiles[x] # NoRow}}

\* The lookup with role in ('coach') only.
CoachLookupNoAssistant(uid) ==
  \E p \in ProfileRows : p.user_id = uid /\ p.role \in {"coach"}

\* exists (select 1 from public.profiles p
\*         where p.user_id = auth.uid() and p.role in ('coach','assistant_coach'))
CoachLookup(uid) ==
  \E p \in ProfileRows : p.user_id = uid /\ p.role \in {"coach", "assistant_coach"}

\* using (user_id = auth.uid() or exists (...)) of profiles_select_own_or_coach
profiles_select_own_or_coach(uid, row) ==
  row.user_id = uid \/ CoachLookup(uid)

\* using (...) with check (...) of profiles_update_own_or_coach: the old row
\* passes USING and the new row passes WITH CHECK.
profiles_update_own_or_coach(uid, old, new) ==
  /\ (old.user_id = uid \/ CoachLookup(uid))
  /\ (new.user_id = uid \/ CoachLookup(uid))

\* The role stored for a requester, "none" when it has no profile row.
StoredRole(u) == IF profiles[u] = NoRow THEN "none" ELSE profiles[u].role

\* select ... from profiles where user_id = P, run by authenticated R.
RlsSelectProfile(R, P) ==
  /\ profiles[P] # NoRow
  /\ rlsLog' = [kind |-> "select", by |-> R, byRole |-> StoredRole(R), target |-> P,
                allowed |-> profiles_select_own_or_coach(R, profiles[P])]
  /\ UNCHANGED <<storeVars, calls, assignVars, resultVars, accountVars, portalVars>>

\* update profiles set role = r, full_name = n where user_id = P, run by R.
RlsUpdateProfile(R, P, r, n) ==
  /\ profiles[P] # NoRow
  /\ LET old == profiles[P]
         new == [old EXCEPT !.role = r, !.full_name = n]
         ok == profiles_update_own_or_coach(R, old, new)
     IN /\ profiles' = IF ok THEN [profiles EXCEPT ![P] = new] ELSE profiles
        /\ rlsLog' = [kind |-> "update", by |-> R, byRole |-> StoredRole(R), target |-> P,
                      allowed |-> ok]
  /\ UNCHANGED <<authUsers, meet_events, assignments, results, nextId>>
  /\ UNCHANGED <<calls, assignVars, resultVars, accountVars, portalVars>>

(* ------------------------------------------------------------------ *)
(* Assignments screen: ensureMeetEvent, saveAssignment, deleteAssignment *)
(* ------------------------------------------------------------------ *)

Coaches == {"u1", "u2"}          \* the two coaching-staff sessions
Meets == {"m1"}
EventNames == {"100m", "200m"}
Athletes == {"u3"}
Statuses == {"assigned", "alternate"}
MaxCalls == 3
UniqueViolation == "23505"       \* the store's error code for a uniqueness violation

ResolutionFailed == 0 - 1       \* logged for a resolution that ended in an error
NoNotice == [kind |-> "none"]
\* The call's parameters and locals before a call and after it has returned.
NoReq == [meet |-> "m1", event |-> "100m", athlete |-> "u3", status |-> "assigned"]
NoLog == [kind |-> "none"]

\* role === "coach" || role === "assistant" || role === "assistant_coach"
canWrite(c) == StoredRole(c) \in {"coach", "assistant", "assistant_coach"}

\* The unique (meet_id, event_name) key of meet_events.
MeetEventsByKey(meet, name) ==
  {r \in meet_events : r.meet_id = meet /\ r.event_name = name}

\* The unique (meet_event_id, athlete_id) key of assignments.
AssignmentsByPair(meid, ath) ==
  {a \in assignments : a.meet_event_id = meid /\ a.athlete_id = ath}

\* String(x ?? "").toLowerCase().trim(), on the status texts the screen writes.
NormStatus(s) ==
  CASE s = Null -> ""
    [] s = "assigned" -> "assigned"
    [] s = "alternate" -> "alternate"
    [] OTHER -> s

\* The same write with ignoreDuplicates: a row already stored for the pair is kept.
UpsertAssignmentIgnoreDuplicates(meid, ath, st) ==
  IF AssignmentsByPair(meid, ath) = {}
    THEN assignments \cup
           {[id |-> nextId, meet_event_id |-> meid, athlete_id |-> ath, status |-> st]}
    ELSE assignments

\* .upsert({meet_event_id, athlete_id, status}, {onConflict: "meet_event_id,athlete_id"})
UpsertAssignment(meid, ath, st) ==
  IF AssignmentsByPair(meid, ath) = {}
    THEN assignments \cup
           {[id |-> nextId, meet_event_id |-> meid, athlete_id |-> ath, status |-> st]}
    ELSE {IF a \in AssignmentsByPair(meid, ath) THEN [a EXCEPT !.status = st] ELSE a :
            a \in assignments}

\* A notice that never compares the two statuses.
NoticeForAlwaysUpdated(existing, status) ==
  IF existing = NoRow THEN NoNotice
  ELSE [kind |-> "updated", old |-> NormStatus(existing.status), new |-> NormStatus(status)]

\* The notice saveAssignment shows after a successful upsert: none when the
\* pre-check found no row, "No changes made" when the found status equals the
\* requested one, "Assignment updated" with both statuses otherwise.
NoticeFor(existing, status) ==
  IF existing = NoRow THEN NoNotice
  ELSE IF NormStatus(existing.status) = NormStatus(status)
    THEN [kind |-> "unchanged", status |-> NormStatus(status)]
    ELSE [kind |-> "updated", old |-> NormStatus(existing.status), new |-> NormStatus(status)]

LogResolution(key, outcome) ==
  [resolveLog EXCEPT ![key] = @ \cup {outcome}]

\* saveAssignment up to the first await of ensureMeetEvent: the guards, the
\* cleared error and notice, and the lookup in the session's meetEventByKey map.
SaveStart(c, meet, ev, ath, st) ==
  /\ pc[c] = "idle"
  /\ calls < MaxCalls
  /\ canWrite(c)
  /\ calls' = calls + 1
  /\ req' = [req EXCEPT ![c] = [meet |-> meet, event |-> ev, athlete |-> ath, status |-> st]]
  /\ error' = [error EXCEPT ![c] = ""]
  /\ notice' = [notice EXCEPT ![c] = NoNotice]
  /\ LET cached == {r \in meetEvents[c] : r.meet_id = meet /\ r.event_name = ev}
     IN IF cached # {}
          THEN LET row == CHOOSE r \in cached : TRUE
               IN /\ me' = [me EXCEPT ![c] = row.id]
                  /\ pc' = [pc EXCEPT ![c] = "precheck"]
                  /\ resolveLog' = LogResolution(<<meet, ev>>, row.id)
          ELSE /\ pc' = [pc EXCEPT ![c] = "find"]
               /\ UNCHANGED <<me, resolveLog>>
  /\ outcomeLog' = [outcomeLog EXCEPT ![c] = NoLog]
  /\ UNCHANGED <<storeVars, rlsLog, existingRow, meetEvents, lastWrite>>
  /\ UNCHANGED <<resultVars, accountVars, portalVars>>

\* ensureMeetEvent: select ... eq(meet_id).eq(event_name).maybeSingle()
EnsureFind(c) ==
  /\ pc[c] = "find"
  /\ LET found == MeetEventsByKey(req[c].meet, req[c].event)
     IN IF found # {}
          THEN LET row == CHOOSE r \in found : TRUE
               IN /\ meetEvents' = [meetEvents EXCEPT ![c] = @ \cup {row}]
                  /\ me' = [me EXCEPT ![c] = row.id]
                  /\ pc' = [pc EXCEPT ![c] = "precheck"]
                  /\ resolveLog' = LogResolution(<<req[c].meet, req[c].event>>, row.id)
          ELSE /\ pc' = [pc EXCEPT ![c] = "insert"]
               /\ UNCHANGED <<meetEvents, me, resolveLog>>
  /\ UNCHANGED <<storeVars, calls, rlsLog, req, existingRow, notice, error, outcomeLog, lastWrite>>
  /\ UNCHANGED <<resultVars, accountVars, portalVars>>

\* ensureMeetEvent: insert({meet_id, event_name}).select().single(); a failed
\* insert is thrown and caught by saveAssignment, which shows its message.
EnsureInsert(c) ==
  /\ pc[c] = "insert"
  /\ IF MeetEventsByKey(req[c].meet, req[c].event) # {}
       THEN /\ error' = [error EXCEPT ![c] = UniqueViolation]
            /\ pc' = [pc EXCEPT ![c] = "idle"]
            /\ resolveLog' = LogResolution(<<req[c].meet, req[c].event>>, ResolutionFailed)
            /\ req' = [req EXCEPT ![c] = NoReq]
            /\ UNCHANGED <<meet_events, nextId, meetEvents, me>>
       ELSE LET row == [id |-> nextId, meet_id |-> req[c].meet, event_name |-> req[c].event]
            IN /\ meet_events' = meet_events \cup {row}
               /\ nextId' = nextId + 1
               /\ meetEvents' = [meetEvents EXCEPT ![c] = @ \cup {row}]
               /\ me' = [me EXCEPT ![c] = row.id]
               /\ pc' = [pc EXCEPT ![c] = "precheck"]
               /\ resolveLog' = LogResolution(<<req[c].meet, req[c].event>>, row.id)
               /\ UNCHANGED <<error, req>>
  /\ UNCHANGED <<profiles, authUsers, assignments, results>>
  /\ UNCHANGED <<calls, rlsLog, existingRow, notice, outcomeLog, lastWrite>>
  /\ UNCHANGED <<resultVars, accountVars, portalVars>>

\* saveAssignment: the pre-check select of the pair's row (.maybeSingle()).
SavePrecheck(c) ==
  /\ pc[c] = "precheck"
  /\ LET rows == AssignmentsByPair(me[c], req[c].athlete)
     IN existingRow' = [existingRow EXCEPT ![c] =
                          IF rows = {} THEN NoRow ELSE CHOOSE a \in rows : TRUE]
  /\ pc' = [pc EXCEPT ![c] = "upsert"]
  /\ UNCHANGED <<storeVars, calls, rlsLog, req, me, meetEvents, notice, error, outcomeLog,
                 lastWrite, resolveLog>>
  /\ UNCHANGED <<resultVars, accountVars, portalVars>>

\* saveAssignment: the upsert and the notice computed from the pre-check's row.
SaveUpsert(c) ==
  /\ pc[c] = "upsert"
  /\ LET pair == <<me[c], req[c].athlete>>
         before == AssignmentsByPair(me[c], req[c].athlete)
         prior == IF pair \in DOMAIN lastWrite THEN lastWrite[pair] ELSE [by |-> Null, status |-> Null]
     IN /\ assignments' = UpsertAssignment(me[c], req[c].athlete, req[c].status)
        /\ nextId' = IF before = {} THEN nextId + 1 ELSE nextId
        /\ notice' = [notice EXCEPT ![c] = NoticeFor(existingRow[c], req[c].status)]
        /\ outcomeLog' = [outcomeLog EXCEPT ![c] =
               [kind |-> "saved",
                seen |-> IF existingRow[c] = NoRow THEN Null ELSE existingRow[c].status,
                before |-> IF before = {} THEN Null ELSE (CHOOSE a \in before : TRUE).status,
                requested |-> req[c].status,
                notice |-> NoticeFor(existingRow[c], req[c].status)]]
        /\ lastWrite' = (pair :> [by |-> c, status |-> req[c].status,
                                  prevBy |-> prior.by, prevStatus |-> prior.status])
                        @@ lastWrite
  /\ pc' = [pc EXCEPT ![c] = "reload"]
  /\ UNCHANGED <<profiles, authUsers, meet_events, results>>
  /\ UNCHANGED <<calls, rlsLog, req, me, existingRow, meetEvents, error, resolveLog>>
  /\ UNCHANGED <<resultVars, accountVars, portalVars>>

\* loadMeetContext: the session's meetEvents become the meet's rows. It ends
\* saveAssignment ("safe reload") and also runs whenever a meet is selected.
loadMeetContext(c, meet) ==
  /\ pc[c] \in {"idle", "reload"}
  /\ pc[c] = "reload" => meet = req[c].meet
  /\ meetEvents' = [meetEvents EXCEPT ![c] = {r \in meet_events : r.meet_id = meet}]
  /\ pc' = [pc EXCEPT ![c] = "idle"]
  /\ req' = [req EXCEPT ![c] = NoReq]
  /\ me' = [me EXCEPT ![c] = 0]
  /\ existingRow' = [existingRow EXCEPT ![c] = NoRow]
  /\ UNCHANGED <<storeVars, calls, rlsLog, notice, error, outcomeLog, lastWrite, resolveLog>>
  /\ UNCHANGED <<resultVars, accountVars, portalVars>>

\* deleteAssignment(id): delete().eq("id", id)
deleteAssignment(c, id) ==
  /\ pc[c] = "idle"
  /\ canWrite(c)
  /\ calls < MaxCalls
  /\ calls' = calls + 1
  /\ \E a \in assignments : a.id = id
  /\ error' = [error EXCEPT ![c] = ""]
  /\ notice' = [notice EXCEPT ![c] = NoNotice]
  /\ assignments' = {a \in assignments : a.id # id}
  /\ LET gone == {<<a.meet_event_id, a.athlete_id>> : a \in {x \in assignments : x.id = id}}
     IN lastWrite' = [p \in DOMAIN lastWrite \ gone |-> lastWrite[p]]
  /\ outcomeLog' = [outcomeLog EXCEPT ![c] = NoLog]
  /\ UNCHANGED <<profiles, authUsers, meet_events, results, nextId>>
  /\ UNCHANGED <<rlsLog, pc, req, me, existingRow, meetEvents, resolveLog>>
  /\ UNCHANGED <<resultVars, accountVars, portalVars>>

\* ---- the page.tsx variant of the screen (ensureMeetEventId, saveAssignment) ----

\* .upsert({meet_id, event_name}, {onConflict: "meet_id,event_name"}).select("id")
UpsertMeetEvent(meet, name) ==
  IF MeetEventsByKey(meet, name) = {}
    THEN meet_events \cup {[id |-> nextId, meet_id |-> meet, event_name |-> name]}
    ELSE meet_events

\* saveAssignment of page.tsx up to its first await. The event choice comes from
\* the session's loaded list: the meet's meet_events rows when it has any
\* (source "meet_events": the id is used as is), the global event names otherwise.
PageSaveStart(c, meet, choice, ath, st) ==
  /\ pc[c] = "idle"
  /\ calls < MaxCalls
  /\ canWrite(c)
  /\ LET loaded == {r \in meetEvents[c] : r.meet_id = meet}
     IN /\ IF loaded # {}
             THEN choice \in {[source |-> "meet_events", id |-> r.id, name |-> r.event_name] :
                                r \in loaded}
             ELSE choice \in {[source |-> "events", id |-> 0, name |-> n] : n \in EventNames}
        /\ req' = [req EXCEPT ![c] =
                     [meet |-> meet, event |-> choice.name, athlete |-> ath, status |-> st]]
        /\ IF choice.source = "meet_events"
             THEN /\ me' = [me EXCEPT ![c] = choice.id]
                  /\ pc' = [pc EXCEPT ![c] = "page_upsert"]
                  /\ resolveLog' = LogResolution(<<meet, choice.name>>, choice.id)
             ELSE /\ pc' = [pc EXCEPT ![c] = "page_ensure"]
                  /\ UNCHANGED <<me, resolveLog>>
  /\ calls' = calls + 1
  /\ error' = [error EXCEPT ![c] = ""]
  /\ outcomeLog' = [outcomeLog EXCEPT ![c] = NoLog]
  /\ UNCHANGED <<storeVars, rlsLog, existingRow, meetEvents, notice, lastWrite>>
  /\ UNCHANGED <<resultVars, accountVars, portalVars>>

\* ensureMeetEventId: the conflict-tolerant upsert of the meet_events row.
PageEnsure(c) ==
  /\ pc[c] = "page_ensure"
  /\ meet_events' = UpsertMeetEvent(req[c].meet, req[c].event)
  /\ nextId' = IF MeetEventsByKey(req[c].meet, req[c].event) = {} THEN nextId + 1 ELSE nextId
  /\ LET row == CHOOSE r \in meet_events' :
                  r.meet_id = req[c].meet /\ r.event_name = req[c].event
     IN /\ me' = [me EXCEPT ![c] = row.id]
        /\ resolveLog' = LogResolution(<<req[c].meet, req[c].event>>, row.id)
  /\ pc' = [pc EXCEPT ![c] = "page_upsert"]
  /\ UNCHANGED <<profiles, authUsers, assignments, results>>
  /\ UNCHANGED <<calls, rlsLog, req, existingRow, meetEvents, notice, error, outcomeLog,
                 lastWrite>>
  /\ UNCHANGED <<resultVars, accountVars, portalVars>>

\* saveAssignment of page.tsx: the upsert of the assignment; no notice is shown.
PageUpsert(c) ==
  /\ pc[c] = "page_upsert"
  /\ LET pair == <<me[c], req[c].athlete>>
         before == AssignmentsByPair(me[c], req[c].athlete)
         prior == IF pair \in DOMAIN lastWrite THEN lastWrite[pair] ELSE [by |-> Null, status |-> Null]
     IN /\ assignments' = UpsertAssignment(me[c], req[c].athlete, req[c].status)
        /\ nextId' = IF before = {} THEN nextId + 1 ELSE nextId
        /\ lastWrite' = (pair :> [by |-> c, status |-> req[c].status,
                                  prevBy |-> prior.by, prevStatus |-> prior.status])
                        @@ lastWrite
  /\ pc' = [pc EXCEPT ![c] = "reload"]
  /\ UNCHANGED <<profiles, authUsers, meet_events, results>>
  /\ UNCHANGED <<calls, rlsLog, req, me, existingRow, meetEvents, notice, error, outcomeLog,
                 resolveLog>>
  /\ UNCHANGED <<resultVars, accountVars, portalVars>>

(* ------------------------------------------------------------------ *)
(* Results screen: saveResult, deleteResult                           *)
(* ------------------------------------------------------------------ *)

\* What the form's mark, place, points and notes inputs hold when Save is pressed.
ResultForms ==
  {[mark |-> "10.90", place |-> " 2", points |-> "x", notes |-> ""],
   [mark |-> "10.50", place |-> "", points |-> " 2", notes |-> "wind"],
   [mark |-> "10.50", place |-> "x", points |-> "", notes |-> ""]}
MaxResultOps == 5
DuplicateResult == "duplicate result"   \* the friendly delete-first message

\* Number(text) for a non-empty text: the number, written in canonical form,
\* or NaN.
NumberOf(t) == CASE t = " 2" -> "2" [] t = "2" -> "2" [] OTHER -> "NaN"

\* text.trim() === "" ? null : Number(text), then Number.isFinite(n) ? n : null
PlaceOrPoints(t) ==
  LET n == IF t = "" THEN Null ELSE NumberOf(t)
  IN IF n \notin {Null, "NaN"} THEN n ELSE Null

\* text.trim() === "" ? null : text.trim()
TrimOrNull(t) == IF t = "" THEN Null ELSE t

\* sessionRole lower-cased is coach, assistant_coach, assistant or admin
canManage(c) == StoredRole(c) \in {"coach", "assistant_coach", "assistant", "admin"}

ResultsByPair(meid, ath) ==
  {r \in results : r.meet_event_id = meid /\ r.athlete_id = ath}

\* supabase.from("results").upsert(payload) with no onConflict: the conflict
\* target is the primary key, the payload carries no id, so the row is inserted
\* with a fresh id and the (meet_event_id, athlete_id) key rejects a second row.
UpsertResultMergeOnPair(payload) ==
  IF ResultsByPair(payload.meet_event_id, payload.athlete_id) # {}
    THEN [error |-> "",
          rows |-> {IF r \in ResultsByPair(payload.meet_event_id, payload.athlete_id)
                      THEN [r EXCEPT !.mark = payload.mark, !.place = payload.place,
                                     !.points = payload.points, !.notes = payload.notes]
                      ELSE r : r \in results}]
    ELSE [error |-> "", rows |-> results \cup {[payload EXCEPT !.id = nextId]}]

UpsertResultDeafToConflict(payload) ==
  [error |-> "",
   rows |-> IF ResultsByPair(payload.meet_event_id, payload.athlete_id) # {}
              THEN results ELSE results \cup {[payload EXCEPT !.id = nextId]}]

UpsertResult(payload) ==
  IF ResultsByPair(payload.meet_event_id, payload.athlete_id) # {}
    THEN [error |-> UniqueViolation, rows |-> results]
    ELSE [error |-> "", rows |-> results \cup {[payload EXCEPT !.id = nextId]}]

StoredResult(meid, ath) ==
  IF ResultsByPair(meid, ath) = {} THEN NoRow ELSE CHOOSE r \in ResultsByPair(meid, ath) : TRUE

AppendHist(h, pair, what) ==
  (pair :> ((IF pair \in DOMAIN h THEN h[pair] ELSE <<>>) \o <<what>>)) @@ h

\* saveResult: the pair comes from the event and athlete dropdowns, which offer
\* the meet's assigned (event, athlete) pairs.
saveResult(c, meid, ath, mark, place, points, notes) ==
  /\ calls < MaxResultOps
  /\ canManage(c)
  /\ \E a \in assignments : a.meet_event_id = meid /\ a.athlete_id = ath
  /\ LET payload == [id |-> 0, meet_event_id |-> meid, athlete_id |-> ath,
                     mark |-> TrimOrNull(mark), place |-> PlaceOrPoints(place),
                     points |-> PlaceOrPoints(points), notes |-> TrimOrNull(notes)]
         res == UpsertResult(payload)
         outcome == IF res.error = UniqueViolation THEN DuplicateResult ELSE res.error
     IN /\ results' = res.rows
        /\ nextId' = IF res.rows # results THEN nextId + 1 ELSE nextId
        /\ resError' = [resError EXCEPT ![c] = outcome]
        /\ resHist' = AppendHist(resHist, <<meid, ath>>,
                                 IF outcome = "" THEN "ok" ELSE "dup")
        /\ lastSave' = [kind |-> "save", by |-> c, sent |-> payload, error |-> outcome,
                        entered |-> [place |-> place, points |-> points],
                        before |-> StoredResult(meid, ath),
                        after |-> IF ResultsByPair(meid, ath) = {}
                                    THEN (IF res.rows = results THEN NoRow
                                          ELSE [payload EXCEPT !.id = nextId])
                                    ELSE CHOOSE r \in res.rows :
                                           r.meet_event_id = meid /\ r.athlete_id = ath]
  /\ calls' = calls + 1
  /\ UNCHANGED <<profiles, authUsers, meet_events, assignments>>
  /\ UNCHANGED <<rlsLog, assignVars, accountVars, portalVars>>

\* deleteResult(id): delete().eq("id", id)
deleteResult(c, id) ==
  /\ calls < MaxResultOps
  /\ canManage(c)
  /\ \E r \in results : r.id = id
  /\ results' = {r \in results : r.id # id}
  /\ resError' = [resError EXCEPT ![c] = ""]
  /\ LET r == CHOOSE x \in results : x.id = id
     IN resHist' = AppendHist(resHist, <<r.meet_event_id, r.athlete_id>>, "del")
  /\ calls' = calls + 1
  /\ UNCHANGED <<profiles, authUsers, meet_events, assignments, nextId>>
  /\ UNCHANGED <<rlsLog, assignVars, lastSave, accountVars, portalVars>>

(* ------------------------------------------------------------------ *)
(* Accounts: sign-in, the admin gate, deactivate, list, create, update *)
(* ------------------------------------------------------------------ *)

MaxAccountOps == 2
MaxNow == 1
BanDuration == 876000            \* ban_duration: "876000h", in hours
Undef == "undefined"             \* a field the request body does not carry

\* Supabase user may expose banned_until; any future timestamp counts as banned.
isBannedIndefinitelyOrActiveBan(user) ==
  IF user.banned_until = NoBan THEN FALSE ELSE user.banned_until > now

\* The principal is under an active suspension.
Suspended(u) ==
  authUsers[u] # NoRow /\ authUsers[u].banned_until # NoBan /\ authUsers[u].banned_until > now

\* supabase.auth.signInWithPassword: the identity provider rejects a banned
\* principal and otherwise opens a session.
SignIn(u) ==
  /\ authUsers[u] # NoRow
  /\ u \notin sessions
  /\ sessions' = IF Suspended(u) THEN sessions ELSE sessions \cup {u}
  /\ acctLog' = [kind |-> "signin", passed |-> ~Suspended(u),
                  suspended |-> Suspended(u), status |-> "signin"]
  /\ UNCHANGED <<storeVars, calls, rlsLog, assignVars, resultVars, now, portalVars>>

\* SignOutButton: supabase.auth.signOut()
signOut(u) ==
  /\ u \in sessions
  /\ sessions' = sessions \ {u}
  /\ UNCHANGED <<storeVars, calls, rlsLog, assignVars, resultVars, now, acctLog, portalVars>>

\* Time passes (hours).
Tick ==
  /\ now < MaxNow
  /\ now' = now + 1
  /\ UNCHANGED <<storeVars, calls, rlsLog, assignVars, resultVars, sessions, acctLog, portalVars>>

\* A gate that only asks for a session user.
requireCoachOrAssistantNoRoleCheck(u) ==
  IF u \notin sessions THEN "401" ELSE "ok"

\* requireCoachOrAssistant: 401 without a session user, 403 unless the role read
\* from the requester's own profile row (athlete when missing) is coach or
\* assistant_coach.
requireCoachOrAssistant(u) ==
  IF u \notin sessions THEN "401"
  ELSE LET role == IF profiles[u] = NoRow THEN "athlete" ELSE profiles[u].role
       IN IF role = "coach" \/ role = "assistant_coach" THEN "ok" ELSE "403"

GateLog(op, by) ==
  [kind |-> op, passed |-> requireCoachOrAssistant(by) = "ok",
   suspended |-> Suspended(by), status |-> requireCoachOrAssistant(by),
   authed |-> by \in sessions, role |-> StoredRole(by)]

\* What loadMeetContext shows a coaching-staff session for each assignment: the
\* athlete's full_name read from profiles under the select policy, the athlete
\* id when no profile row comes back.
StaffAssignmentViews(c) ==
  {[id |-> a.id,
    athlete_name |-> IF /\ profiles[a.athlete_id] # NoRow
                        /\ profiles_select_own_or_coach(c, profiles[a.athlete_id])
                       THEN profiles[a.athlete_id].full_name ELSE a.athlete_id] :
     a \in assignments}

\* A deletion that removes the principal and its profile row.
DeactivateHardDelete(by, target) ==
  /\ calls < MaxAccountOps
  /\ acctLog' = GateLog("deactivate", by)
  /\ calls' = calls + 1
  /\ IF requireCoachOrAssistant(by) = "ok" /\ authUsers[target] # NoRow
       THEN /\ authUsers' = [authUsers EXCEPT ![target] = NoRow]
            /\ profiles' = [profiles EXCEPT ![target] = NoRow]
            /\ sessions' = sessions \ {target}
       ELSE UNCHANGED <<authUsers, profiles, sessions>>
  /\ UNCHANGED <<meet_events, assignments, results, nextId>>
  /\ UNCHANGED <<rlsLog, assignVars, resultVars, now, portalVars>>

\* POST /api/admin/accounts/delete: the gate, then an indefinite ban of the
\* auth user; an unknown user_id is the provider's error (400).
Deactivate(by, target) ==
  /\ calls < MaxAccountOps
  /\ acctLog' = GateLog("deactivate", by)
  /\ calls' = calls + 1
  /\ IF requireCoachOrAssistant(by) = "ok" /\ authUsers[target] # NoRow
       THEN authUsers' = [authUsers EXCEPT ![target].banned_until = now + BanDuration]
       ELSE UNCHANGED authUsers
  /\ UNCHANGED <<profiles, meet_events, assignments, results, nextId>>
  /\ UNCHANGED <<rlsLog, assignVars, resultVars, sessions, now, portalVars>>

\* .from("profiles").select(...).in("role", ["coach","assistant_coach","athlete"])
\* through the requester's own client, i.e. under the select policy.
ListedProfiles(by) ==
  {u \in Users : /\ profiles[u] # NoRow
                 /\ profiles[u].role \in {"coach", "assistant_coach", "athlete"}
                 /\ profiles_select_own_or_coach(by, profiles[u])}

\* GET /api/admin/accounts/list (lines 17-57): rows whose auth user is banned are
\* dropped; a row whose auth lookup fails (`failed`) is kept.
ListAccountsFiltered(by, failed) ==
  /\ calls < MaxAccountOps
  /\ calls' = calls + 1
  /\ acctLog' =
       IF requireCoachOrAssistant(by) = "ok"
         THEN [kind |-> "list",
               accounts |-> {u \in ListedProfiles(by) :
                               \/ u \in failed
                               \/ authUsers[u] = NoRow
                               \/ ~isBannedIndefinitelyOrActiveBan(authUsers[u])},
               suspendedThen |-> {u \in Users : Suspended(u)}] @@ GateLog("list", by)
         ELSE GateLog("refused", by)
  /\ UNCHANGED <<storeVars, rlsLog, assignVars, resultVars, sessions, now, portalVars>>

\* GET /api/admin/accounts/list (lines 64-80): every profile row is returned.
ListAccountsUnfiltered(by) ==
  /\ calls < MaxAccountOps
  /\ calls' = calls + 1
  /\ acctLog' =
       IF requireCoachOrAssistant(by) = "ok"
         THEN [kind |-> "list", accounts |-> ListedProfiles(by),
               suspendedThen |-> {u \in Users : Suspended(u)}] @@ GateLog("list", by)
         ELSE GateLog("refused", by)
  /\ UNCHANGED <<storeVars, rlsLog, assignVars, resultVars, sessions, now, portalVars>>

\* The principals that exist.
Principals == {u \in Users : authUsers[u] # NoRow}

\* POST /api/admin/accounts/create: the gate, the body schema, createUser, the
\* profile upsert, and the rollback of the auth user when that upsert fails.
CreateAccount(by, body, upsertFails) ==
  /\ calls < MaxAccountOps
  /\ acctLog' = [body |-> body, before |-> Principals] @@ GateLog("create", by)
  /\ calls' = calls + 1
  /\ LET free == {u \in Users : authUsers[u] = NoRow}
         taken == \E u \in Users : authUsers[u] # NoRow /\ authUsers[u].email = body.email
         normalizedGender == IF body.role = "athlete"
                               THEN (IF body.gender = Undef THEN Null ELSE body.gender)
                               ELSE Null
     IN IF requireCoachOrAssistant(by) = "ok" /\ free # {} /\ ~taken /\ ~upsertFails
          THEN LET userId == CHOOSE u \in free : TRUE
               IN /\ authUsers' = [authUsers EXCEPT ![userId] =
                                     [id |-> userId, email |-> body.email, banned_until |-> NoBan]]
                  /\ profiles' = [profiles EXCEPT ![userId] =
                                    ProfileRow(userId, body.full_name, body.role,
                                               normalizedGender, body.email)]
          ELSE UNCHANGED <<authUsers, profiles>>
  /\ UNCHANGED <<meet_events, assignments, results, nextId>>
  /\ UNCHANGED <<rlsLog, assignVars, resultVars, sessions, now, portalVars>>

\* An update that writes the profile whatever the auth email update answered.
ProfileUpdateDespiteAuthError(authErr, updFails, old) ==
  ~updFails /\ old # NoRow

\* The profile update runs only when the auth email update did not fail (the
\* early return at lines 36-41); it changes a row only when one matches.
ProfileUpdateProceeds(authErr, updFails, old) ==
  ~authErr /\ ~updFails /\ old # NoRow

\* POST /api/admin/accounts/update: the gate, the auth email update when an
\* email is given, then the profile update with the fields the body carries.
UpdateAccount(by, target, body, authFails, updFails) ==
  /\ calls < MaxAccountOps
  /\ acctLog' = [body |-> body, target |-> target, row |-> profiles[target],
                  authFailed |-> /\ body.email \notin {Undef, Null}
                                 /\ (authFails \/ authUsers[target] = NoRow),
                  updFailed |-> updFails]
                 @@ GateLog("update", by)
  /\ calls' = calls + 1
  /\ LET emailGiven == body.email \notin {Undef, Null}
         authErr == emailGiven /\ (authFails \/ authUsers[target] = NoRow)
         old == profiles[target]
         withName == IF body.full_name # Undef THEN [old EXCEPT !.full_name = body.full_name]
                     ELSE old
         withEmail == IF body.email # Undef THEN [withName EXCEPT !.email = body.email]
                      ELSE withName
         withRole == IF body.role # Undef THEN [withEmail EXCEPT !.role = body.role]
                     ELSE withEmail
         effectiveRole == IF body.role = Undef THEN Null ELSE body.role
         new == IF body.gender # Undef
                  THEN [withRole EXCEPT !.gender =
                          IF effectiveRole = "athlete" THEN body.gender ELSE Null]
                  ELSE withRole
     IN IF requireCoachOrAssistant(by) # "ok"
          THEN UNCHANGED <<authUsers, profiles>>
          ELSE /\ authUsers' = IF emailGiven /\ ~authErr
                                 THEN [authUsers EXCEPT ![target].email = body.email]
                                 ELSE authUsers
               /\ profiles' = IF ProfileUpdateProceeds(authErr, updFails, old)
                                THEN [profiles EXCEPT ![target] = new]
                                ELSE profiles
  /\ UNCHANGED <<meet_events, assignments, results, nextId>>
  /\ UNCHANGED <<rlsLog, assignVars, resultVars, sessions, now, portalVars>>

\* POST /api/admin/create-user: the gate, inviteUserByEmail, then the profile
\* upsert (no gender column); a failed upsert answers 400 and nothing is undone.
InviteUser(by, body, upsertFails) ==
  /\ calls < MaxAccountOps
  /\ acctLog' = [body |-> body, before |-> Principals] @@ GateLog("invite", by)
  /\ calls' = calls + 1
  /\ LET free == {u \in Users : authUsers[u] = NoRow}
         taken == \E u \in Users : authUsers[u] # NoRow /\ authUsers[u].email = body.email
     IN IF requireCoachOrAssistant(by) = "ok" /\ free # {} /\ ~taken
          THEN LET newUser == CHOOSE u \in free : TRUE
               IN /\ authUsers' = [authUsers EXCEPT ![newUser] =
                                     [id |-> newUser, email |-> body.email, banned_until |-> NoBan]]
                  /\ profiles' = IF upsertFails THEN profiles
                                 ELSE [profiles EXCEPT ![newUser] =
                                         ProfileRow(newUser, body.full_name, body.role, Null,
                                                    body.email)]
          ELSE UNCHANGED <<authUsers, profiles>>
  /\ UNCHANGED <<meet_events, assignments, results, nextId>>
  /\ UNCHANGED <<rlsLog, assignVars, resultVars, sessions, now, portalVars>>

\* POST /api/admin/send-password-reset: the gate, then a recovery link for the
\* email; no principal and no profile is written.
SendPasswordReset(by, email) ==
  /\ calls < MaxAccountOps
  /\ calls' = calls + 1
  /\ acctLog' = [email |-> email] @@ GateLog("reset", by)
  /\ UNCHANGED <<storeVars, rlsLog, assignVars, resultVars, sessions, now, portalVars>>

\* createAccount of AccountsClient: nothing without canAdmin; the form checks
\* (gender is required for athlete accounts); then the POST to
\* /api/admin/accounts/create with gender: gender || null.
createAccount(by, form, upsertFails) ==
  /\ requireCoachOrAssistant(by) = "ok"
  /\ IF form.role = "athlete" /\ form.gender = ""
       THEN /\ calls < MaxAccountOps
            /\ calls' = calls + 1
            /\ acctLog' = [kind |-> "form", passed |-> FALSE, suspended |-> Suspended(by),
                            status |-> "Gender is required for athlete accounts.",
                            body |-> form, before |-> Principals]
            /\ UNCHANGED <<storeVars, rlsLog, assignVars, resultVars, sessions, now,
                           portalVars>>
       ELSE CreateAccount(by, [full_name |-> form.full_name, email |-> form.email,
                               role |-> form.role,
                               gender |-> IF form.gender = "" THEN Null ELSE form.gender],
                          upsertFails)

InviteBodies ==
  {[full_name |-> "Ann", email |-> "new@x.org", role |-> "athlete"]}

CreateForms ==
  {[full_name |-> "Ann", email |-> "new@x.org", role |-> "athlete", gender |-> ""],
   [full_name |-> "Ann", email |-> "new@x.org", role |-> "athlete", gender |-> "female"]}

\* The request bodies tried.
CreateBodies ==
  {[full_name |-> "Ann", email |-> "new@x.org", role |-> "athlete", gender |-> "male"],
   [full_name |-> "Ann", email |-> "new@x.org", role |-> "athlete", gender |-> Null],
   [full_name |-> "Bo", email |-> "new@x.org", role |-> "coach", gender |-> "male"]}

UpdateBodies ==
  {[full_name |-> Undef, email |-> Undef, role |-> "athlete", gender |-> Undef],
   [full_name |-> "Bo", email |-> "new@x.org", role |-> Undef, gender |-> Undef],
   [full_name |-> Undef, email |-> Undef, role |-> "coach", gender |-> "male"],
   [full_name |-> Undef, email |-> Undef, role |-> "coach", gender |-> Undef]}

(* ------------------------------------------------------------------ *)
(* Messages: threads, participants, messages and the messages screen   *)
(* ------------------------------------------------------------------ *)

MaxThreads == 1
MaxMessages == 1
NoThread == 0                    \* activeThreadId === null, initialThreadId undefined
NoMe == "nobody"                 \* me === null

\* The Participant rows naming (thread, principal).
ParticipantRows(parts, tid, uid) ==
  {p \in parts : p.thread_id = tid /\ p.user_id = uid}

\* Row policies of the messaging tables. Read thread / participant / message
\* rows: allowed only if a Participant row exists for (thread, requester).
IsParticipantAnyone(parts, uid, tid) == TRUE

IsParticipant(parts, uid, tid) == ParticipantRows(parts, tid, uid) # {}

message_threads_select(parts, uid, t) == IsParticipant(parts, uid, t.id)

messages_select(parts, uid, m) == IsParticipant(parts, uid, m.thread_id)

\* Create thread: allowed only if requester's role is coach or assistant_coach.
message_threads_insertAnyRole(uid, row) == row.created_by = uid

message_threads_insert(uid, row) ==
  row.created_by = uid /\ StoredRole(uid) \in StaffRoles

\* Add participant: the requester is the thread's creator, or already a
\* participant with a staff role.
message_thread_participants_insert(threadsTbl, parts, uid, row) ==
  \/ \E t \in threadsTbl : t.id = row.thread_id /\ t.created_by = uid
  \/ IsParticipant(parts, uid, row.thread_id) /\ StoredRole(uid) \in StaffRoles

\* Create message: the requester is an existing participant of the thread.
messages_insert(parts, uid, row) ==
  row.sender_user_id = uid /\ IsParticipant(parts, uid, row.thread_id)

\* The screen before it is mounted. The error banner is left out: no handler
\* reads it. initialThreadId is the thread id still to be applied: NoThread
\* when the page was opened without one or initialAppliedRef is already set.
InboxIdle ==
  [uid |-> NoMe, role |-> Null, threads |-> {}, activeThreadId |-> NoThread, messages |-> {},
   initialThreadId |-> NoThread, showNew |-> "no", athletes |-> {}]

\* reloadSummaries: the threads the requester can see; an active thread that
\* is no longer visible is cleared.
reloadSummaries(box, threadsTbl, parts) ==
  LET threadsList == {t.id : t \in {x \in threadsTbl : message_threads_select(parts, box.uid, x)}}
  IN [box EXCEPT !.threads = threadsList,
                 !.activeThreadId = IF @ \in threadsList THEN @ ELSE NoThread]

\* loadThreadMessages: select from messages where thread_id = threadId, under
\* the row policy; with markRead, the summaries are reloaded afterwards.
loadThreadMessages(box, threadId, markRead, threadsTbl, parts, msgs) ==
  LET data == {m \in msgs : m.thread_id = threadId /\ messages_select(parts, box.uid, m)}
      shown == [box EXCEPT !.messages = data]
  IN IF markRead THEN reloadSummaries(shown, threadsTbl, parts) ELSE shown

\* The bootstrap effect: session, own profile row, then reloadAll.
Bootstrap(u, initialThreadId, threadsTbl, parts) ==
  IF u \notin sessions
    THEN [InboxIdle EXCEPT !.initialThreadId = initialThreadId]
    ELSE reloadSummaries([InboxIdle EXCEPT !.uid = u,
                                           !.role = IF profiles[u] = NoRow THEN Null
                                                    ELSE profiles[u].role,
                                           !.initialThreadId = initialThreadId],
                         threadsTbl, parts)

\* What an open of thread tid showed, and whether the requester had a
\* Participant row for it when asking.
OpenLog(via, tid, box) ==
  [kind |-> "open", via |-> via, by |-> box.uid, thread |-> tid,
   participant |-> ParticipantRows(message_thread_participants, tid, box.uid) # {},
   rows |-> {m \in box.messages : m.thread_id = tid}]

\* The messages page is loaded by principal u, with or without ?thread=.
Mount(u, initialThreadId) ==
  /\ inbox' = Bootstrap(u, initialThreadId, message_threads, message_thread_participants)
  /\ UNCHANGED <<message_threads, message_thread_participants, messages, msgLog>>
  /\ UNCHANGED <<storeVars, calls, rlsLog, assignVars, resultVars, accountVars, view, clientVars>>

\* The effect that applies initialThreadId once, after me and threads are there.
ApplyInitialThread ==
  /\ inbox.uid # NoMe
  /\ inbox.initialThreadId # NoThread
  /\ LET tid == inbox.initialThreadId
         applied == [inbox EXCEPT !.initialThreadId = NoThread]
         next == IF tid \in inbox.threads
                   THEN loadThreadMessages([applied EXCEPT !.activeThreadId = tid], tid, TRUE,
                                           message_threads, message_thread_participants,
                                           messages)
                   ELSE applied
     IN /\ inbox' = next
        /\ msgLog' = OpenLog("initial", tid, next)
  /\ UNCHANGED <<message_threads, message_thread_participants, messages>>
  /\ UNCHANGED <<storeVars, calls, rlsLog, assignVars, resultVars, accountVars, view, clientVars>>

\* A thread of the inbox list is clicked.
onSelectThread(tid) ==
  /\ inbox.uid # NoMe
  /\ tid \in inbox.threads
  /\ LET next == loadThreadMessages([inbox EXCEPT !.activeThreadId = tid], tid, TRUE,
                                    message_threads, message_thread_participants, messages)
     IN /\ inbox' = next
        /\ msgLog' = OpenLog("inbox", tid, next)
  /\ UNCHANGED <<message_threads, message_thread_participants, messages>>
  /\ UNCHANGED <<storeVars, calls, rlsLog, assignVars, resultVars, accountVars, view, clientVars>>

\* The refresh button: the summaries, then the thread that was active when
\* the button was pressed.
onRefresh ==
  /\ inbox.uid # NoMe
  /\ LET reloaded == reloadSummaries(inbox, message_threads, message_thread_participants)
         next == IF inbox.activeThreadId # NoThread
                   THEN loadThreadMessages(reloaded, inbox.activeThreadId, FALSE,
                                           message_threads, message_thread_participants,
                                           messages)
                   ELSE reloaded
     IN /\ inbox' = next
        /\ msgLog' = IF inbox.activeThreadId # NoThread
                       THEN OpenLog("refresh", inbox.activeThreadId, next)
                       ELSE msgLog
  /\ UNCHANGED <<message_threads, message_thread_participants, messages>>
  /\ UNCHANGED <<storeVars, calls, rlsLog, assignVars, resultVars, accountVars, view, clientVars>>

\* A reply is sent to the active thread.
onSendReply ==
  /\ inbox.uid # NoMe
  /\ inbox.activeThreadId # NoThread
  /\ Cardinality(messages) < MaxMessages
  /\ LET row == [id |-> Cardinality(messages) + 1, thread_id |-> inbox.activeThreadId,
                 sender_user_id |-> inbox.uid]
         ok == messages_insert(message_thread_participants, inbox.uid, row)
     IN /\ messages' = IF ok THEN messages \cup {row} ELSE messages
        /\ inbox' = IF ok
                      THEN reloadSummaries([inbox EXCEPT !.messages = @ \cup {row}],
                                           message_threads, message_thread_participants)
                      ELSE inbox
  /\ UNCHANGED <<message_threads, message_thread_participants, msgLog>>
  /\ UNCHANGED <<storeVars, calls, rlsLog, assignVars, resultVars, accountVars, view, clientVars>>

\* The athlete rows of profiles the requester may read.
AthleteChoices(uid) ==
  {u \in Users : /\ profiles[u] # NoRow
                 /\ profiles[u].role = "athlete"
                 /\ profiles_select_own_or_coach(uid, profiles[u])}

\* The New Message button: the modal on a desktop, the compose page (which
\* reads the requester's role again) on a phone.
openNewMessage(isMobile) ==
  /\ inbox.uid # NoMe
  /\ inbox' =
       IF inbox.role \notin StaffRoles
         THEN inbox
       ELSE IF isMobile
         THEN IF StoredRole(inbox.uid) \in StaffRoles
                THEN [inbox EXCEPT !.showNew = "compose", !.role = StoredRole(inbox.uid),
                                   !.athletes = AthleteChoices(inbox.uid)]
                ELSE [inbox EXCEPT !.showNew = "compose",
                                   !.role = IF profiles[inbox.uid] = NoRow THEN Null
                                            ELSE profiles[inbox.uid].role,
                                   !.athletes = {}]
         ELSE [inbox EXCEPT !.showNew = "modal", !.athletes = AthleteChoices(inbox.uid)]
  /\ UNCHANGED <<message_threads, message_thread_participants, messages, msgLog>>
  /\ UNCHANGED <<storeVars, calls, rlsLog, assignVars, resultVars, accountVars, view, clientVars>>

\* createThread of the modal and of the compose page: the thread row, the two
\* Participant rows, the first message if one was typed; the first statement
\* that fails ends the handler with the error shown.
createThread(athleteId, first, fail) ==
  /\ inbox.uid # NoMe
  /\ inbox.showNew # "no"
  /\ inbox.role \in StaffRoles
  /\ Cardinality(message_threads) < MaxThreads
  /\ first => Cardinality(messages) < MaxMessages
  /\ IF athleteId = ""
       THEN UNCHANGED messageVars
       ELSE LET uid == inbox.uid
                t == [id |-> Cardinality(message_threads) + 1, created_by |-> uid]
                tOk == fail # "thread" /\ message_threads_insert(uid, t)
                threadsTbl == IF tOk THEN message_threads \cup {t} ELSE message_threads
                rows == {[thread_id |-> t.id, user_id |-> uid, added_by |-> uid],
                         [thread_id |-> t.id, user_id |-> athleteId, added_by |-> uid]}
                pOk == /\ tOk
                       /\ fail # "participants"
                       /\ \A r \in rows :
                            message_thread_participants_insert(threadsTbl,
                                                               message_thread_participants,
                                                               uid, r)
                parts == IF pOk THEN message_thread_participants \cup rows
                         ELSE message_thread_participants
                m == [id |-> Cardinality(messages) + 1, thread_id |-> t.id,
                      sender_user_id |-> uid]
                mOk == pOk /\ (first => fail # "message" /\ messages_insert(parts, uid, m))
                msgs == IF pOk /\ first /\ mOk THEN messages \cup {m} ELSE messages
                closed == [inbox EXCEPT !.showNew = "no"]
            IN /\ message_threads' = threadsTbl
               /\ message_thread_participants' = parts
               /\ messages' = msgs
               /\ inbox' =
                    IF ~mOk THEN inbox
                    ELSE IF inbox.showNew = "compose"
                      THEN Bootstrap(uid, NoThread, threadsTbl, parts)
                    ELSE loadThreadMessages(
                           [reloadSummaries(closed, threadsTbl, parts)
                              EXCEPT !.activeThreadId = t.id],
                           t.id, TRUE, threadsTbl, parts, msgs)
               /\ msgLog' = [kind |-> "create", by |-> uid, storedRole |-> StoredRole(uid),
                             clientRole |-> inbox.role, created |-> tOk]
  /\ UNCHANGED <<storeVars, calls, rlsLog, assignVars, resultVars, accountVars, view, clientVars>>

(* ------------------------------------------------------------------ *)
(* Listings handed to a requester: screens, PDF export, chat tools     *)
(* ------------------------------------------------------------------ *)

\* auth.uid() of the requester's session, NoMe without one.
AuthUid(u) == IF u \in sessions THEN u ELSE NoMe

\* Assignments and results are read by the owning athlete (own rows only) or
\* by any coach or assistant coach.
assignments_selectAnyone(uid, row) == uid # NoMe

assignments_select(uid, row) ==
  /\ uid # NoMe
  /\ (row.athlete_id = uid \/ StoredRole(uid) \in StaffRoles)

results_select(uid, row) ==
  /\ uid # NoMe
  /\ (row.athlete_id = uid \/ StoredRole(uid) \in StaffRoles)

VisibleAssignments(uid) == {a \in assignments : assignments_select(uid, a)}

VisibleResults(uid) == {r \in results : results_select(uid, r)}

\* The user ids of the profile rows the select policy lets uid read.
VisibleProfiles(uid) ==
  {p \in Users : /\ profiles[p] # NoRow
                 /\ uid # NoMe
                 /\ profiles_select_own_or_coach(uid, profiles[p])}

MeetEventIds(meet) == {e.id : e \in {x \in meet_events : x.meet_id = meet}}

\* What a listing handed to its requester: the athlete ids of the rows, and
\* the user ids of the profile rows.
ViewLog(kind, name, u, role, rows, profs, elevated, status) ==
  [kind |-> kind, name |-> name, by |-> u, role |-> role,
   athletes |-> {r.athlete_id : r \in rows}, profiles |-> profs,
   elevated |-> elevated, status |-> status]

\* loadMeetContext of the assignments screen, the assignments query: the role
\* comes with the page, userId from getUser ("" without a session).
loadMeetContextAssignments(u, meet) ==
  /\ LET role == IF profiles[u] = NoRow THEN "athlete" ELSE profiles[u].role
         userId == AuthUid(u)
         rows == {a \in VisibleAssignments(AuthUid(u)) :
                    /\ a.meet_event_id \in MeetEventIds(meet)
                    /\ (~canWrite(u) /\ userId # NoMe) => a.athlete_id = userId}
     IN view' = ViewLog("assignments", "loadMeetContext", u, role, rows,
                        {r.athlete_id : r \in rows} \cap VisibleProfiles(AuthUid(u)),
                        FALSE, "ok")
  /\ UNCHANGED <<storeVars, calls, rlsLog, assignVars, resultVars, accountVars, messageVars, clientVars>>

\* loadMeetScoped of the results screen: the meet's assignments, unfiltered.
loadMeetScoped(u, meet) ==
  /\ u \in sessions
  /\ LET rows == {a \in VisibleAssignments(u) : a.meet_event_id \in MeetEventIds(meet)}
     IN view' = ViewLog("results", "loadMeetScoped", u, StoredRole(u), rows, {}, FALSE, "ok")
  /\ UNCHANGED <<storeVars, calls, rlsLog, assignVars, resultVars, accountVars, messageVars, clientVars>>

\* loadResults of the results screen with "All events": the results of the
\* meet's assigned events, for the session's athlete unless the session manages.
loadResults(u, meet, selectedAthleteId) ==
  /\ u \in sessions
  /\ LET restrictToAthlete == ~canManage(u)
         athleteIdFilter == IF restrictToAthlete THEN u ELSE selectedAthleteId
         meetEventIds == {a.meet_event_id :
                            a \in {x \in VisibleAssignments(u) :
                                     x.meet_event_id \in MeetEventIds(meet)}}
         rows == {r \in VisibleResults(u) :
                    /\ r.meet_event_id \in meetEventIds
                    /\ athleteIdFilter # "" => r.athlete_id = athleteIdFilter}
     IN view' = ViewLog("results", "loadResults", u, StoredRole(u), rows, {}, FALSE, "ok")
  /\ UNCHANGED <<storeVars, calls, rlsLog, assignVars, resultVars, accountVars, messageVars, clientVars>>

\* role === "coach" || role === "assistant_coach" || role === "assistant"
isCoachAnyRole(role) == TRUE

isCoach(role) == role \in {"coach", "assistant_coach", "assistant"}

\* GET of the assignments PDF route: 401 without a user, 403 without a
\* profile row, the service-role client for a coach when the key is set,
\* the athlete filter otherwise.
AssignmentsPdfGET(u, meet, serviceKey) ==
  /\ LET role == StoredRole(u)
         admin == isCoach(role) /\ serviceKey
         readable == IF admin THEN assignments ELSE VisibleAssignments(u)
         rows == {a \in readable :
                    /\ a.meet_event_id \in MeetEventIds(meet)
                    /\ ~isCoach(role) => a.athlete_id = u}
     IN view' =
          IF u \notin sessions
            THEN ViewLog("export", "GET", u, role, {}, {}, FALSE, "401")
          ELSE IF profiles[u] = NoRow
            THEN ViewLog("export", "GET", u, role, {}, {}, FALSE, "403")
          ELSE IF isCoach(role) /\ rows = {} /\ ~admin
            THEN ViewLog("export", "GET", u, role, {}, {}, admin, "500")
          ELSE ViewLog("export", "GET", u, role, rows,
                       {r.athlete_id : r \in rows}
                         \cap (IF admin THEN Users ELSE VisibleProfiles(u)),
                       admin, "ok")
  /\ UNCHANGED <<storeVars, calls, rlsLog, assignVars, resultVars, accountVars, messageVars, clientVars>>

\* role === "coach" || role === "assistant_coach" || role === "trainer"
proxyIsStaff(role) == role \in {"coach", "assistant_coach", "trainer"}

\* proxy, on a roster route: to the login page without a user, to /app unless
\* the role read from the requester's profile row (athlete when missing) is
\* staff, the route itself otherwise.
proxy(u) ==
  /\ LET role == IF profiles[u] = NoRow THEN "athlete" ELSE profiles[u].role
     IN view' = ViewLog("gate", "proxy", u, StoredRole(u), {}, {}, FALSE,
                        IF u \notin sessions THEN "/login"
                        ELSE IF ~proxyIsStaff(role) THEN "/app"
                        ELSE "next")
  /\ UNCHANGED <<storeVars, calls, rlsLog, assignVars, resultVars, accountVars, messageVars, clientVars>>

\* getUserRoleAndName of the chat route: the stored role, "athlete" when the
\* profile row is missing.
getUserRole(u) == IF profiles[u] = NoRow THEN "athlete" ELSE profiles[u].role

chatIsCoachAnyRole(role) == TRUE

\* role === "coach" || role === "assistant" || role === "assistant_coach"
chatIsCoach(role) == role \in {"coach", "assistant", "assistant_coach"}

\* The tools of the two chat handlers: route.ts and its earlier variant.
RouteTools ==
  {"get_roster", "get_assignments_for_user", "get_assignments_for_athlete",
   "get_top_results", "get_profile_contact"}

VariantTools ==
  {"get_assignments_for_meet", "get_my_assignments_for_meet", "get_top_results",
   "lookup_profile_by_name", "get_profile_contact"}

\* runTool: every query goes through the session's client, so the row
\* policies apply with the requester's id. arg is athleteUserId, userId or
\* the name searched for; the meet is m1.
ToolAnswer(u, name, arg) ==
  LET coach == chatIsCoach(getUserRole(u))
      seen == VisibleProfiles(u)
      none == [status |-> "error", rows |-> {}, profs |-> {}]
  IN CASE name = "get_roster" ->
            IF ~coach THEN none
            ELSE [status |-> "ok", rows |-> {},
                  profs |-> {p \in seen : profiles[p].role = "athlete"}]
       [] name \in {"get_assignments_for_user", "get_my_assignments_for_meet"} ->
            [status |-> "ok", rows |-> {a \in VisibleAssignments(u) : a.athlete_id = u},
             profs |-> {}]
       [] name = "get_assignments_for_athlete" ->
            IF ~coach \/ arg = "" THEN none
            ELSE [status |-> "ok",
                  rows |-> {a \in VisibleAssignments(u) : a.athlete_id = arg},
                  profs |-> {}]
       [] name = "get_assignments_for_meet" ->
            LET rows == {a \in VisibleAssignments(u) : a.meet_event_id \in MeetEventIds("m1")}
            IN [status |-> "ok", rows |-> rows,
                profs |-> {a.athlete_id : a \in rows} \cap seen]
       [] name = "get_top_results" ->
            LET rows == VisibleResults(u)
            IN [status |-> "ok", rows |-> rows,
                profs |-> {r.athlete_id : r \in rows} \cap seen]
       [] name = "lookup_profile_by_name" ->
            IF arg = "" THEN none
            ELSE [status |-> "ok", rows |-> {},
                  profs |-> {p \in seen : profiles[p].full_name = arg}]
       [] name = "get_profile_contact" ->
            IF ~coach \/ arg = "" \/ arg \notin seen THEN none
            ELSE [status |-> "ok", rows |-> {}, profs |-> {arg}]
       [] OTHER -> none

\* POST /api/chat up to one tool call the model asked for.
runTool(u, name, arg) ==
  /\ u \in sessions
  /\ LET answer == ToolAnswer(u, name, arg)
     IN view' = ViewLog("tool", name, u, getUserRole(u), answer.rows, answer.profs, FALSE,
                        answer.status)
  /\ UNCHANGED <<storeVars, calls, rlsLog, assignVars, resultVars, accountVars, messageVars, clientVars>>

(* ------------------------------------------------------------------ *)
(* Initial states                                                     *)
(* ------------------------------------------------------------------ *)

InitProfilesTable ==
  profiles = [u \in Users |->
                CASE u = "u1" -> ProfileRow("u1", "Cal", "coach", Null, "cal@x.org")
                  [] u = "u2" -> ProfileRow("u2", "Dee", "assistant_coach", Null, "dee@x.org")
                  [] u = "u3" -> ProfileRow("u3", "Eve", "athlete", "female", "eve@x.org")
                  [] OTHER -> NoRow]

InitAuthUsers ==
  authUsers = [u \in Users |->
                 IF u = "u4" THEN NoRow
                 ELSE [id |-> u, email |-> profiles[u].email, banned_until |-> NoBan]]

InitAssignScreen ==
  /\ pc = [c \in Coaches |-> "idle"]
  /\ req = [c \in Coaches |-> NoReq]
  /\ me = [c \in Coaches |-> 0]
  /\ existingRow = [c \in Coaches |-> NoRow]
  /\ meetEvents = [c \in Coaches |-> {}]
  /\ notice = [c \in Coaches |-> NoNotice]
  /\ error = [c \in Coaches |-> ""]
  /\ outcomeLog = [c \in Coaches |-> NoLog]
  /\ lastWrite = <<>>
  /\ resolveLog = [k \in Meets \X EventNames |-> {}]

InitResultScreen ==
  /\ resError = [c \in Coaches |-> ""]
  /\ resHist = <<>>
  /\ lastSave = NoLog

InitAccountState ==
  /\ sessions = {}
  /\ now = 0
  /\ acctLog = NoLog

\* No thread yet, the messages screen not mounted, nothing listed.
\* The chat screen with nothing sent.
ChatIdle ==
  [phase |-> "idle", by |-> NoMe, rounds |-> 0, completions |-> 0, toolFailed |-> {},
   toolError |-> "", lmThrew |-> FALSE,
   response |-> [status |-> 0, text |-> "", error |-> ""], shown |-> ""]

\* The messages screen with an empty list and nothing in flight.
RtIdle ==
  [list |-> <<>>, notifs |-> {}, sending |-> 0, loads |-> {}, fetches |-> {}, started |-> 0,
   latest |-> {}, lastPush |-> FALSE, newest |-> {}]

InitPortal ==
  /\ message_threads = {}
  /\ message_thread_participants = {}
  /\ messages = {}
  /\ inbox = InboxIdle
  /\ msgLog = NoLog
  /\ view = NoLog
  /\ chat = ChatIdle
  /\ rt = RtIdle

InitCommon ==
  /\ InitProfilesTable
  /\ InitAuthUsers
  /\ calls = 0
  /\ rlsLog = NoLog
  /\ InitAssignScreen
  /\ InitResultScreen
  /\ InitAccountState
  /\ InitPortal

\* An empty meet: no event occurrence, no assignment, no result yet.
InitAssign ==
  /\ InitCommon
  /\ meet_events = {}
  /\ assignments = {}
  /\ results = {}
  /\ nextId = 1

NextAssign ==
  \/ \E c \in Coaches, m \in Meets, ev \in EventNames, a \in Athletes, st \in Statuses :
       SaveStart(c, m, ev, a, st)
  \/ \E c \in Coaches : EnsureFind(c)
  \/ \E c \in Coaches : EnsureInsert(c)
  \/ \E c \in Coaches : SavePrecheck(c)
  \/ \E c \in Coaches : SaveUpsert(c)
  \/ \E c \in Coaches, m \in Meets : loadMeetContext(c, m)
  \/ \E c \in Coaches, id \in 1..(2 * MaxCalls) : deleteAssignment(c, id)
  \/ \E c \in Coaches, m \in Meets, a \in Athletes, st \in Statuses :
       \E choice \in {[source |-> "meet_events", id |-> r.id, name |-> r.event_name] :
                        r \in meetEvents[c]}
                     \cup {[source |-> "events", id |-> 0, name |-> n] : n \in EventNames} :
         PageSaveStart(c, m, choice, a, st)
  \/ \E c \in Coaches : PageEnsure(c)
  \/ \E c \in Coaches : PageUpsert(c)

SpecAssign == InitAssign /\ [][NextAssign]_vars

(* ------------------------------------------------------------------ *)
(* Claims on the assignments screen (SpecAssign)                      *)
(* ------------------------------------------------------------------ *)

PairOf(a) == <<a.meet_event_id, a.athlete_id>>

\* C2: for every (event occurrence, athlete) pair at most one Assignment row
\* exists, and its status is the status of the most recent upsertAssignment
\* call written for the pair, whichever coach wrote it (the second writer wins).
C2_OneRowLastWriterWins ==
  /\ \A a, b \in assignments : PairOf(a) = PairOf(b) => a = b
  /\ \A a \in assignments :
       /\ PairOf(a) \in DOMAIN lastWrite
       /\ a.status = lastWrite[PairOf(a)].status

\* Two coaches wrote the same pair with different statuses while the first
\* writer's call was still running, and the row holds the second writer's status.
C2_Witness ==
  \E a \in assignments :
    /\ PairOf(a) \in DOMAIN lastWrite
    /\ LET w == lastWrite[PairOf(a)]
       IN /\ w.prevBy \in Coaches \ {w.by}
          /\ w.prevStatus # w.status
          /\ pc[w.prevBy] = "reload"
          /\ a.status = w.status

\* The outcome the claim expects from the row `prior` (a status, or Null for no
\* row) and the requested status.
ExpectedOutcome(prior, requested) ==
  IF prior = Null THEN NoNotice
  ELSE IF prior = requested THEN [kind |-> "unchanged", status |-> requested]
  ELSE [kind |-> "updated", old |-> prior, new |-> requested]

C6_ResolutionIdempotent ==
  \A k \in Meets \X EventNames :
    /\ Cardinality(MeetEventsByKey(k[1], k[2])) <= 1
    /\ Cardinality(resolveLog[k]) <= 1
    /\ ResolutionFailed \notin resolveLog[k]

\* C7: no upsertAssignment call ends with a uniqueness-constraint violation,
\* from the event-occurrence resolution or from the assignment write.
C7_NoConstraintViolationSurfaces ==
  \A c \in Coaches : error[c] # UniqueViolation

\* A meet with two event occurrences, the athlete assigned to both, no result yet.
InitResults ==
  /\ InitCommon
  /\ meet_events = {[id |-> 1, meet_id |-> "m1", event_name |-> "100m"],
                    [id |-> 2, meet_id |-> "m1", event_name |-> "200m"]}
  /\ assignments = {[id |-> 3, meet_event_id |-> 1, athlete_id |-> "u3", status |-> "assigned"],
                    [id |-> 4, meet_event_id |-> 2, athlete_id |-> "u3", status |-> "alternate"]}
  /\ results = {}
  /\ nextId = 5

NextResults ==
  \/ \E c \in Coaches, meid \in {1, 2}, a \in Athletes, f \in ResultForms :
       saveResult(c, meid, a, f.mark, f.place, f.points, f.notes)
  \/ \E c \in Coaches, id \in 5..(5 + MaxResultOps) : deleteResult(c, id)

SpecResults == InitResults /\ [][NextResults]_vars

(* ------------------------------------------------------------------ *)
(* Claims on the results screen (SpecResults)                         *)
(* ------------------------------------------------------------------ *)

\* C3: for every (event occurrence, athlete) pair the first createResult
\* succeeds, every later one fails with the duplicate-result error until the
\* row is deleted, and after deleteResult the next createResult succeeds.
C3_FirstWinsUntilDeleted ==
  \A p \in DOMAIN resHist :
    LET h == resHist[p]
    IN /\ \A i \in 1..Len(h) :
            /\ h[i] = "ok" => (i = 1 \/ h[i - 1] = "del")
            /\ h[i] = "dup" => (i > 1 /\ h[i - 1] \in {"ok", "dup"})
            /\ h[i] = "del" => (i > 1 /\ h[i - 1] \in {"ok", "dup"})
       /\ Cardinality(ResultsByPair(p[1], p[2])) = IF h[Len(h)] = "del" THEN 0 ELSE 1

\* A pair whose history is: created, rejected as a duplicate, deleted, created.
C3_Witness ==
  \E p \in DOMAIN resHist : resHist[p] = <<"ok", "dup", "del", "ok">>

\* C4: a createResult call rejected as a duplicate leaves the stored row's
\* mark, place, points and notes exactly as they were.
C4_DuplicateLeavesRowUntouched ==
  (lastSave.kind = "save" /\ lastSave.before # NoRow) =>
     /\ lastSave.error = DuplicateResult
     /\ lastSave.after = lastSave.before

\* Stored mark "10.90", a second attempt with "10.50" and other place, points
\* and notes: rejected, and the stored mark is still "10.90".
C4_Witness ==
  /\ lastSave.kind = "save"
  /\ lastSave.error = DuplicateResult
  /\ lastSave.sent.mark = "10.50"
  /\ lastSave.before # NoRow
  /\ lastSave.before.mark = "10.90"
  /\ lastSave.sent.place # lastSave.before.place
  /\ lastSave.sent.notes # lastSave.before.notes
  /\ \E r \in results : r.id = lastSave.before.id /\ r.mark = "10.90"

(* ------------------------------------------------------------------ *)
(* Specifications of the profile policy and of the accounts           *)
(* ------------------------------------------------------------------ *)

InitEmptyMeet ==
  /\ meet_events = {}
  /\ assignments = {}
  /\ results = {}
  /\ nextId = 1

InitProfiles == InitCommon /\ InitEmptyMeet

NextProfiles ==
  \/ \E R \in Users, P \in Users : RlsSelectProfile(R, P)
  \/ \E R \in Users, P \in Users, r \in Roles, n \in Names : RlsUpdateProfile(R, P, r, n)

SpecProfiles == InitProfiles /\ [][NextProfiles]_vars

\* The predicate the profile contract states for requester R and profile P.
SelfOrStaff(R, roleOfR, P) == R = P \/ roleOfR \in StaffRoles

\* C1: for every requester R and every stored profile P, the select policy
\* admits R's read of P, and the update policy admits R's update of P, exactly
\* when R is P's owner or R's own stored profile has role coach or
\* assistant_coach; the last statement run was allowed exactly on that
\* condition, taken on the table as it stood when the statement ran.
C1_ReadUpdateIffSelfOrStaff ==
  /\ \A R \in Users, P \in Users :
        profiles[P] # NoRow =>
          /\ profiles_select_own_or_coach(R, profiles[P]) <=> SelfOrStaff(R, StoredRole(R), P)
          /\ \A r \in Roles, n \in Names :
                profiles_update_own_or_coach(R, profiles[P],
                                             [profiles[P] EXCEPT !.role = r, !.full_name = n])
                  <=> SelfOrStaff(R, StoredRole(R), P)
  /\ rlsLog.kind \in {"select", "update"} =>
        (rlsLog.allowed <=> SelfOrStaff(rlsLog.by, rlsLog.byRole, rlsLog.target))

\* An assistant coach has updated another user's profile, and a requester that
\* is neither the owner nor coaching staff is on record in the table.
C1_Witness ==
  /\ rlsLog.kind = "update"
  /\ rlsLog.allowed
  /\ rlsLog.by # rlsLog.target
  /\ rlsLog.byRole = "assistant_coach"
  /\ \E R \in Users, P \in Users :
        /\ profiles[P] # NoRow
        /\ ~SelfOrStaff(R, StoredRole(R), P)
        /\ ~profiles_select_own_or_coach(R, profiles[P])

\* The athlete has an assignment and a result on record.
InitAccounts ==
  /\ InitCommon
  /\ meet_events = {[id |-> 1, meet_id |-> "m1", event_name |-> "100m"]}
  /\ assignments = {[id |-> 2, meet_event_id |-> 1, athlete_id |-> "u3", status |-> "assigned"]}
  /\ results = {[id |-> 3, meet_event_id |-> 1, athlete_id |-> "u3", mark |-> "10.90",
                 place |-> "2", points |-> Null, notes |-> Null]}
  /\ nextId = 4

NextAccounts ==
  \/ \E u \in Users : SignIn(u)
  \/ \E u \in Users : signOut(u)
  \/ Tick
  \/ \E by \in Users, t \in Users : Deactivate(by, t)
  \/ \E by \in Users, failed \in {{}, {"u2"}, {"u3"}} : ListAccountsFiltered(by, failed)
  \/ \E by \in Users : ListAccountsUnfiltered(by)
  \/ \E by \in Coaches, b \in CreateBodies : CreateAccount(by, b, FALSE)
  \/ \E by \in Coaches, b \in UpdateBodies : UpdateAccount(by, "u3", b, FALSE, FALSE)

SpecAccounts == InitAccounts /\ [][NextAccounts]_vars

(* ------------------------------------------------------------------ *)
(* Claims on the account lifecycle (SpecAccounts)                     *)
(* ------------------------------------------------------------------ *)

\* C8: a deactivation request removes no principal and no profile row, changes
\* no assignment and no result row, and leaves what every user is shown for
\* the assignments (the rows and the athlete names they resolve to) as it was.
C8_DeactivateNonDestructive ==
  [][(acctLog'.kind = "deactivate" /\ \E by \in Users, t \in Users : Deactivate(by, t)) =>
       /\ Principals \subseteq Principals'
       /\ profiles' = profiles
       /\ assignments' = assignments
       /\ results' = results
       /\ \A c \in Users : StaffAssignmentViews(c)' = StaffAssignmentViews(c)]_vars

\* The athlete with an assignment and a result has just been deactivated by a
\* signed-in coach; the rows are there and the coach is shown the athlete's name.
C8_Witness ==
  /\ acctLog.kind = "deactivate"
  /\ acctLog.passed
  /\ Suspended("u3")
  /\ \E a \in assignments : a.athlete_id = "u3"
  /\ \E r \in results : r.athlete_id = "u3"
  /\ profiles["u3"] # NoRow
  /\ \E c \in sessions :
        /\ StoredRole(c) \in StaffRoles
        /\ \A v \in StaffAssignmentViews(c) : v.athlete_name = profiles["u3"].full_name

\* C9: a listing returned to coaching staff holds no principal that was under
\* an active suspension when the listing was produced.
C9_ListingExcludesSuspended ==
  acctLog.kind = "list" => acctLog.accounts \cap acctLog.suspendedThen = {}

\* C10: a principal under suspension is refused whatever it attempts: its
\* sign-in fails and its admin requests do not pass the gate.
C10_DeactivatedPrincipalRejected ==
  (acctLog.kind # "none" /\ acctLog.suspended) => ~acctLog.passed

\* The admin routes and the account form, requested by anyone who has signed in
\* or not.
NextAdmin ==
  \/ \E u \in Users : SignIn(u)
  \/ \E by \in Users, t \in {"u2", "u3"} : Deactivate(by, t)
  \/ \E by \in Users : ListAccountsFiltered(by, {})
  \/ \E by \in Users, b \in CreateBodies, f \in BOOLEAN : CreateAccount(by, b, f)
  \/ \E by \in Users, b \in InviteBodies, f \in BOOLEAN : InviteUser(by, b, f)
  \/ \E by \in Users, e \in {"eve@x.org", "new@x.org"} : SendPasswordReset(by, e)
  \/ \E by \in Users, form \in CreateForms : createAccount(by, form, FALSE)
  \/ \E by \in Users, t \in {"u3", "u4"}, b \in UpdateBodies, fail \in {"none", "auth"} :
       UpdateAccount(by, t, b, fail = "auth", FALSE)

SpecAdmin == InitAccounts /\ [][NextAdmin]_vars

\* C11: no principal exists without a profile row, whatever the outcome of the
\* account creations that ran (creation makes both or neither).
C11_NoPrincipalWithoutProfile ==
  \A u \in Principals : profiles[u] # NoRow

\* C12: a creation request for an athlete with no gender (null or omitted) is
\* answered with a validation error and creates no principal and no profile.
C12_AthleteWithoutGenderRejected ==
  (/\ acctLog.kind \in {"create", "form"}
   /\ (acctLog.kind = "create" => acctLog.passed)
   /\ acctLog.body.role = "athlete"
   /\ acctLog.body.gender \in {Null, Undef, ""})
  => /\ Principals = acctLog.before
     /\ \A u \in Users \ acctLog.before : profiles[u] = NoRow

\* C13: every profile whose role is not athlete has gender null.
C13_NonAthleteGenderNull ==
  \A u \in Users :
    (profiles[u] # NoRow /\ profiles[u].role # "athlete") => profiles[u].gender = Null

\* C14: when an account update carries an email and the auth email update
\* fails, the profile row is exactly as it was before the request.
C14_FailedEmailSyncLeavesProfile ==
  (acctLog.kind = "update" /\ acctLog.passed /\ acctLog.authFailed)
  => profiles[acctLog.target] = acctLog.row

\* A coach's update of an existing profile with another name and another
\* email, whose auth email update failed: the row has the old name and email.
C14_Witness ==
  /\ acctLog.kind = "update"
  /\ acctLog.passed
  /\ acctLog.authFailed
  /\ acctLog.row # NoRow
  /\ authUsers[acctLog.target] # NoRow
  /\ acctLog.body.full_name \notin {Undef, acctLog.row.full_name}
  /\ acctLog.body.email # acctLog.row.email
  /\ profiles[acctLog.target].full_name = acctLog.row.full_name
  /\ authUsers[acctLog.target].email = acctLog.row.email

\* The admin requests: create, update, deactivate, list, invite, password reset.
AdminKinds == {"create", "update", "deactivate", "list", "refused", "invite", "reset"}

\* C20: an admin request without a session user is answered 401, one from any
\* other requester whose stored role is not coach or assistant_coach (no
\* profile row included) 403, and a step that is not a request that passed
\* the gate creates, changes or suspends no principal and no profile.
C20_AdminGate ==
  [][/\ acctLog'.kind \in AdminKinds =>
          /\ acctLog'.status = "401" <=> ~acctLog'.authed
          /\ acctLog'.status = "403" <=>
                (acctLog'.authed /\ acctLog'.role \notin StaffRoles)
          /\ acctLog'.status \in {"401", "403", "ok"}
     /\ (profiles' # profiles \/ authUsers' # authUsers) =>
          (acctLog'.kind \in AdminKinds /\ acctLog'.status = "ok")]_vars

\* A signed-in principal with no profile row asked to create an account and
\* got 403, and no principal was added.
C20_Witness ==
  /\ acctLog.kind = "create"
  /\ acctLog.status = "403"
  /\ acctLog.role = "none"
  /\ Principals = acctLog.before

(* ------------------------------------------------------------------ *)
(* The messages screen                                                 *)
(* ------------------------------------------------------------------ *)

\* Cal, Dee and Eve are signed in; no thread exists yet.
InitMessages ==
  /\ InitProfilesTable
  /\ InitAuthUsers
  /\ calls = 0
  /\ rlsLog = NoLog
  /\ InitAssignScreen
  /\ InitResultScreen
  /\ sessions = {"u1", "u2", "u3"}
  /\ now = 0
  /\ acctLog = NoLog
  /\ InitPortal
  /\ InitEmptyMeet

\* The account update that turns the assistant coach into an athlete.
DemoteBody == [full_name |-> Undef, email |-> Undef, role |-> "athlete", gender |-> Undef]

NextMessages ==
  \/ \E u \in Users, tid \in {NoThread} \cup {t.id : t \in message_threads} : Mount(u, tid)
  \/ ApplyInitialThread
  \/ \E tid \in 1..MaxThreads : onSelectThread(tid)
  \/ onRefresh
  \/ onSendReply
  \/ \E isMobile \in BOOLEAN : openNewMessage(isMobile)
  \/ \E a \in {"", "u3"}, first \in BOOLEAN, fail \in {"none", "participants"} :
       createThread(a, first, fail)
  \/ StoredRole("u2") \in StaffRoles /\ UpdateAccount("u1", "u2", DemoteBody, FALSE, FALSE)

SpecMessages == InitMessages /\ [][NextMessages]_vars

\* C15: a principal with no Participant row for a thread is shown no message
\* of that thread, whether the thread was asked for through the inbox list,
\* the refresh button or the initial thread id; and every message on the
\* screen belongs to a thread the principal has a Participant row for.
C15_NoParticipantRowNoMessages ==
  /\ (msgLog.kind = "open" /\ ~msgLog.participant) => msgLog.rows = {}
  /\ \A m \in inbox.messages :
       ParticipantRows(message_thread_participants, m.thread_id, inbox.uid) # {}

\* The assistant coach asked for a thread of the head coach and an athlete,
\* which exists and has a message, by its id, and was shown nothing.
C15_Witness ==
  /\ msgLog.kind = "open"
  /\ msgLog.via = "initial"
  /\ ~msgLog.participant
  /\ \E t \in message_threads : t.id = msgLog.thread
  /\ \E m \in messages : m.thread_id = msgLog.thread
  /\ msgLog.rows = {}

\* C16: a step that adds a Message Thread row is taken by a requester whose
\* stored role is coach or assistant_coach.
C16_ThreadsCreatedByStaffOnly ==
  [][message_threads' # message_threads => StoredRole(inbox.uid) \in StaffRoles]_vars

\* A principal demoted to athlete while the New Message dialog was open
\* pressed Create, and no thread row was stored.
C16_Witness ==
  /\ msgLog.kind = "create"
  /\ msgLog.storedRole = "athlete"
  /\ msgLog.clientRole = "assistant_coach"
  /\ ~msgLog.created
  /\ \A t \in message_threads : t.created_by # msgLog.by

(* ------------------------------------------------------------------ *)
(* Listings, export and chat tools                                     *)
(* ------------------------------------------------------------------ *)

\* Cal, Dee and Eve are signed in; Eve has an assignment and a result.
InitViews ==
  /\ InitProfilesTable
  /\ InitAuthUsers
  /\ calls = 0
  /\ rlsLog = NoLog
  /\ InitAssignScreen
  /\ InitResultScreen
  /\ sessions = {"u1", "u2", "u3"}
  /\ now = 0
  /\ acctLog = NoLog
  /\ InitPortal
  /\ meet_events = {[id |-> 1, meet_id |-> "m1", event_name |-> "100m"]}
  /\ assignments = {[id |-> 2, meet_event_id |-> 1, athlete_id |-> "u3", status |-> "assigned"]}
  /\ results = {[id |-> 3, meet_event_id |-> 1, athlete_id |-> "u3", mark |-> "10.90",
                 place |-> "2", points |-> Null, notes |-> Null]}
  /\ nextId = 4

NextViews ==
  \/ \E u \in {"u2", "u3"}, r \in {"athlete", "assistant"} : RlsUpdateProfile(u, u, r, profiles[u].full_name)
  \/ \E u \in {"u2", "u3"} : signOut(u)
  \/ \E u \in Users : loadMeetContextAssignments(u, "m1")
  \/ \E u \in Users : loadMeetScoped(u, "m1")
  \/ \E u \in Users, a \in {"", "u3"} : loadResults(u, "m1", a)
  \/ \E u \in Users, serviceKey \in BOOLEAN : AssignmentsPdfGET(u, "m1", serviceKey)
  \/ \E u \in Users : proxy(u)
  \/ \E u \in Users, name \in RouteTools \cup VariantTools, arg \in {"", "u3", "Eve"} :
       runTool(u, name, arg)

SpecViews == InitViews /\ [][NextViews]_vars

C18_AthleteToolsOwnDataOnly ==
  (view.kind = "tool" /\ view.role = "athlete")
    => /\ ~view.elevated
       /\ view.athletes \subseteq {view.by}
       /\ view.profiles \subseteq {view.by}
       /\ view.name \in {"get_roster", "get_assignments_for_athlete", "get_profile_contact"}
            => view.status = "error" /\ view.profiles = {} /\ view.athletes = {}

\* An athlete other than Eve asked for the meet's assignments through the
\* ungated tool while Eve's assignment exists, and got no row.
C18_Witness ==
  /\ view.kind = "tool"
  /\ view.name = "get_assignments_for_meet"
  /\ view.role = "athlete"
  /\ view.by = "u2"
  /\ view.status = "ok"
  /\ view.athletes = {}
  /\ \E a \in assignments : a.athlete_id = "u3" /\ a.meet_event_id \in MeetEventIds("m1")

\* C19: the export uses the elevated client only for a requester whose
\* stored role is coach or assistant_coach, and every other requester's
\* export holds that requester's own assignments only.
C19_ExportElevatedForStaffOnly ==
  view.kind = "export"
    => /\ view.elevated => view.role \in StaffRoles
       /\ view.role \notin StaffRoles => view.athletes \subseteq {view.by}

\* C29: every Message Thread row in the store has a Participant row for its
\* creator and one for the athlete selected with it.
C29_ThreadsHaveParticipants ==
  \A t \in message_threads :
    /\ ParticipantRows(message_thread_participants, t.id, t.created_by) # {}
    /\ \E p \in message_thread_participants : p.thread_id = t.id /\ p.user_id # t.created_by

(* ------------------------------------------------------------------ *)
(* Account updates: email and gender (SpecUpdate)                     *)
(* ------------------------------------------------------------------ *)

\* Bodies the schema of the update route accepts (lines 8-15): every field is
\* optional and nullable.
EmailGenderBodies ==
  {[full_name |-> Undef, email |-> Undef, role |-> Undef, gender |-> "male"],
   [full_name |-> Undef, email |-> Undef, role |-> "athlete", gender |-> "male"],
   [full_name |-> Undef, email |-> Undef, role |-> "coach", gender |-> "male"],
   [full_name |-> Undef, email |-> Null, role |-> Undef, gender |-> Undef],
   [full_name |-> Undef, email |-> "new@x.org", role |-> Undef, gender |-> Undef]}

\* The update route requested by anyone, for the assistant coach or the
\* athlete, with either of its two writes failing.
NextUpdate ==
  \/ \E u \in Users : SignIn(u)
  \/ \E u \in Users : signOut(u)
  \/ \E by \in Users, t \in {"u2", "u3"}, b \in EmailGenderBodies,
        fail \in {"none", "auth", "profile"} :
       UpdateAccount(by, t, b, fail = "auth", fail = "profile")

SpecUpdate == InitAccounts /\ [][NextUpdate]_vars

\* C25: when the auth email and the profile email of the target are equal
\* before an account update, they are equal after it, whatever its outcome.
C25_EmailsStayEqual ==
  [][(calls' = calls + 1 /\ acctLog'.kind = "update") =>
       LET t == acctLog'.target
       IN (authUsers[t] # NoRow /\ profiles[t] # NoRow
             /\ authUsers[t].email = profiles[t].email)
            => authUsers'[t].email = profiles'[t].email]_vars

\* C26: an update that passes the gate and succeeds, supplying a gender and
\* no role for a profile whose stored role is athlete, stores that gender.
C26_GenderKeptForAthlete ==
  (/\ acctLog.kind = "update"
   /\ acctLog.passed
   /\ ~acctLog.authFailed
   /\ ~acctLog.updFailed
   /\ acctLog.body.role = Undef
   /\ acctLog.body.gender \in {"male", "female"}
   /\ acctLog.row # NoRow
   /\ acctLog.row.role = "athlete")
    => profiles[acctLog.target].gender = acctLog.body.gender

(* ------------------------------------------------------------------ *)
(* Claims on role escalation through profile updates (SpecProfiles)    *)
(* ------------------------------------------------------------------ *)

\* C24: an update statement run by a principal whose stored role is athlete
\* never leaves that principal with stored role coach or assistant_coach, nor
\* with the select or update policy admitting it on another user's profile.
C24_AthleteCannotEscalate ==
  [][\A u \in Users :
       (StoredRole(u) = "athlete" /\ rlsLog'.kind = "update" /\ rlsLog'.by = u) =>
         /\ StoredRole(u)' \notin StaffRoles
         /\ \A P \in Users \ {u} :
              profiles'[P] # NoRow =>
                /\ ~(profiles_select_own_or_coach(u, profiles[P]))'
                /\ ~(profiles_update_own_or_coach(u, profiles[P], profiles[P]))']_vars

(* ------------------------------------------------------------------ *)
(* Claims on the gates' notion of coaching staff (SpecViews)           *)
(* ------------------------------------------------------------------ *)

\* C21: for every signed-in requester, each gate (the admin API gate, the
\* roster route guard, the manage and write flags of the results and
\* assignments pages, the chat handler and the export) treats the requester as
\* coaching staff exactly when its stored role is coach or assistant_coach.
C21_GatesAgreeOnStaff ==
  \A u \in sessions :
    LET staff == StoredRole(u) \in StaffRoles
    IN /\ (requireCoachOrAssistant(u) = "ok") = staff
       /\ proxyIsStaff(getUserRole(u)) = staff
       /\ canManage(u) = staff
       /\ canWrite(u) = staff
       /\ chatIsCoach(getUserRole(u)) = staff
       /\ isCoach(getUserRole(u)) = staff

(* ------------------------------------------------------------------ *)
(* Claims on the place and points inputs (SpecResults)                 *)
(* ------------------------------------------------------------------ *)

\* C22: a createResult call whose place or points input is not empty and not a
\* number ends with an error and writes nothing; a call that writes stores, for
\* each of the two, the number entered, and absent for an empty input.
C22_NonNumericRejectedBeforeWrite ==
  lastSave.kind = "save" =>
    \A f \in {"place", "points"} :
      LET t == lastSave.entered[f]
      IN /\ (t # "" /\ NumberOf(t) = "NaN")
              => (lastSave.error # "" /\ lastSave.after = lastSave.before)
         /\ (lastSave.error = "" /\ t # "" /\ NumberOf(t) # "NaN")
              => lastSave.after[f] = NumberOf(t)
         /\ (lastSave.error = "" /\ t = "") => lastSave.after[f] = Null

(* ------------------------------------------------------------------ *)
(* The chat request: sendMessage, POST /api/chat, the tool rounds      *)
(* ------------------------------------------------------------------ *)

MAX_TOOL_ROUNDS == 8

\* The texts a chat response or the chat screen can carry.
LmText == "reply written by the language model"
NotSure == "I'm not sure. Can you rephrase the question?"
NoResponse == "I couldn't generate a response. Please try again."
FewSteps == "I wasn't able to pull everything needed to answer that in a few steps."
ClientApology == "I couldn't get a response for that request. Please try again."

\* The error messages of the handler's error responses and of the tool results.
RawErrors ==
  {"Not authenticated.", "completion request failed", "Coaches only.",
   "athleteUserId is required.", "Unknown tool: no_such_tool", "storage error"}

\* okText(text): the trimmed text, the not-sure line when it is empty.
okText(text) ==
  [status |-> 200, text |-> IF text = "" THEN NotSure ELSE text, error |-> ""]

errJson(message, status) == [status |-> status, text |-> "", error |-> message]

\* What the completion asks the handler to call: a tool of the route or a name
\* it does not know, with arguments that parse or do not.
ToolNames == RouteTools \cup {"no_such_tool"}

\* The error a tool call of the route ends with, "" when it answers rows.
\* Unparsable arguments are replaced by {} (lines 690-694).
ToolError(u, name, parsable, storageFails) ==
  LET coach == chatIsCoach(getUserRole(u))
      gated == name \in {"get_roster", "get_assignments_for_athlete", "get_profile_contact"}
      needsId == name \in {"get_assignments_for_athlete", "get_profile_contact"}
  IN IF name \notin RouteTools THEN "Unknown tool: no_such_tool"
     ELSE IF gated /\ ~coach THEN "Coaches only."
     ELSE IF needsId /\ ~parsable THEN "athleteUserId is required."
     ELSE IF storageFails THEN "storage error"
     ELSE ""

\* How runTool hands a tool's error to the loop: as the value it returns.
ToolErrorThrown(err) == IF err = "" THEN "returned" ELSE "thrown"

ToolErrorDelivery(err) == "returned"

\* while (rounds < MAX_TOOL_ROUNDS)
MoreRoundsAlways(rounds) == TRUE

MoreRounds(rounds) == rounds < MAX_TOOL_ROUNDS

\* sendMessage up to the handler's loop: the request is posted; the handler
\* answers 401 without a session user and enters the loop otherwise.
sendMessage(u) ==
  /\ chat.phase \in {"idle", "shown"}
  /\ chat' = IF u \notin sessions
               THEN [ChatIdle EXCEPT !.phase = "responded", !.by = u,
                                     !.response = errJson("Not authenticated.", 401)]
               ELSE [ChatIdle EXCEPT !.phase = "loop", !.by = u]
  /\ UNCHANGED <<storeVars, calls, rlsLog, assignVars, resultVars, accountVars, messageVars,
                 view, rt>>

\* One pass of the loop: the completion request, then either the response or
\* the tool call it asked for, whose result goes back into the conversation.
CompletionRound(outcome, name, parsable, storageFails) ==
  /\ chat.phase = "loop"
  /\ MoreRounds(chat.rounds)
  /\ chat.rounds <= MAX_TOOL_ROUNDS          \* the counter is not followed further
  /\ LET counted == [chat EXCEPT !.rounds = @ + 1, !.completions = @ + 1]
         err == ToolError(chat.by, name, parsable, storageFails)
     IN chat' =
          CASE outcome = "throws" ->
                 [counted EXCEPT !.phase = "responded", !.lmThrew = TRUE,
                                 !.response = errJson("completion request failed", 500)]
            [] outcome = "no message" ->
                 [counted EXCEPT !.phase = "responded", !.response = okText(NoResponse)]
            [] outcome = "text" ->
                 [counted EXCEPT !.phase = "responded", !.response = okText(LmText)]
            [] outcome = "empty text" ->
                 [counted EXCEPT !.phase = "responded", !.response = okText("")]
            [] OTHER ->
                 IF ToolErrorDelivery(err) = "thrown"
                   THEN [counted EXCEPT !.phase = "responded", !.toolError = err,
                                        !.toolFailed = @ \cup {err},
                                        !.response = errJson(err, 500)]
                   ELSE [counted EXCEPT !.toolError = err,
                                        !.toolFailed = IF err = "" THEN @ ELSE @ \cup {err}]
  /\ UNCHANGED <<storeVars, calls, rlsLog, assignVars, resultVars, accountVars, messageVars,
                 view, rt>>

\* The loop is left without a response: the few-steps text is returned.
RoundsExhausted ==
  /\ chat.phase = "loop"
  /\ ~MoreRounds(chat.rounds)
  /\ chat' = [chat EXCEPT !.phase = "responded", !.response = okText(FewSteps)]
  /\ UNCHANGED <<storeVars, calls, rlsLog, assignVars, resultVars, accountVars, messageVars,
                 view, rt>>

\* extractAssistantText on the handler's body: its text when it has one.
extractAssistantText(response) == response.text

\* sendMessage after the fetch: a response that is not ok, or that has no
\* text, puts the fixed apology on the screen; otherwise the text is shown.
ShowResponse ==
  /\ chat.phase = "responded"
  /\ chat' = [chat EXCEPT !.phase = "shown",
                          !.shown = IF chat.response.status # 200
                                         \/ extractAssistantText(chat.response) = ""
                                      THEN ClientApology
                                      ELSE extractAssistantText(chat.response)]
  /\ UNCHANGED <<storeVars, calls, rlsLog, assignVars, resultVars, accountVars, messageVars,
                 view, rt>>

Outcomes == {"throws", "no message", "text", "empty text", "tools"}

HandlerStep ==
  \/ \E o \in Outcomes, name \in ToolNames, parsable \in BOOLEAN, storageFails \in BOOLEAN :
       CompletionRound(o, name, parsable, storageFails)
  \/ RoundsExhausted

NextChat ==
  \/ \E u \in Users : sendMessage(u)
  \/ HandlerStep
  \/ ShowResponse

InitChat == InitViews

SpecChat == InitChat /\ [][NextChat]_vars

\* The handler's steps are taken by the runtime once the awaited completion
\* or tool call has settled, and the screen's continuation once the fetch has.
SpecChatFair == SpecChat /\ WF_vars(HandlerStep) /\ WF_vars(ShowResponse)

(* ------------------------------------------------------------------ *)
(* Claims on the chat request (SpecChat, SpecChatFair)                 *)
(* ------------------------------------------------------------------ *)

C30_AtMostEightCompletions ==
  /\ [](chat.completions <= MAX_TOOL_ROUNDS)
  /\ (chat.phase = "loop" /\ chat.rounds = MAX_TOOL_ROUNDS)
       ~> (chat.phase = "responded" /\ chat.completions = MAX_TOOL_ROUNDS
             /\ chat.response = okText(FewSteps))
  /\ (chat.phase = "loop") ~> (chat.phase = "responded")

\* Eight completion requests were made, each asked for a tool, and the request
\* was answered with the few-steps text.
C30_Witness ==
  /\ chat.phase = "responded"
  /\ chat.completions = MAX_TOOL_ROUNDS
  /\ chat.response = okText(FewSteps)

(* ------------------------------------------------------------------ *)
(* The messages screen under push events: the realtime handler, reply  *)
(* sends, thread loads and summary re-fetches, one step per await      *)
(* ------------------------------------------------------------------ *)

MaxInserts == 2
MaxFetches == 2
MaxLoads == 1

\* The shown list holds message ids; created_at grows with the id.
Ids(s) == {s[i] : i \in 1..Len(s)}

Count(s, id) == Cardinality({i \in 1..Len(s) : s[i] = id})

RECURSIVE SortById(_)
\* .sort((a, b) => a.created_at.localeCompare(b.created_at))
SortById(s) ==
  IF s = <<>> THEN <<>>
  ELSE LET m == CHOOSE x \in Ids(s) : \A y \in Ids(s) : x <= y
           i == CHOOSE k \in 1..Len(s) : s[k] = m
       IN <<m>> \o SortById(SubSeq(s, 1, i - 1) \o SubSeq(s, i + 1, Len(s)))

RECURSIVE DedupById(_)
\* Array.from(new Map(next.map((m) => [m.id, m])).values())
DedupById(s) ==
  IF s = <<>> THEN <<>>
  ELSE LET front == DedupById(SubSeq(s, 1, Len(s) - 1))
       IN IF s[Len(s)] \in Ids(front) THEN front ELSE Append(front, s[Len(s)])

\* The realtime handler's update of the list (lines 237-240).
AppendAlways(prev, id) == SortById(Append(prev, id))

AppendIfAbsent(prev, id) ==
  IF id \in Ids(prev) THEN prev ELSE SortById(Append(prev, id))

\* The ids of the stored messages of a thread.
ThreadMessageIds(tid) == {m.id : m \in {x \in messages : x.thread_id = tid}}

\* reloadSummaries up to its message slice: the request holds what the store
\* answered; push tells whether an insert event started it.
StartReload(r, push) ==
  [r EXCEPT !.started = @ + 1,
            !.fetches = @ \cup {[push |-> push, slice |-> {m.id : m \in messages}]}]

\* A message row inserted by the sender; every subscribed participant's
\* screen is sent the insert event.
InsertMessage(sender) ==
  LET row == [id |-> Cardinality(messages) + 1, thread_id |-> 1, sender_user_id |-> sender]
  IN /\ messages' = messages \cup {row}
     /\ UNCHANGED <<message_threads, message_thread_participants, msgLog>>

\* onSelectThread up to the await in loadThreadMessages: the thread becomes
\* active and the query for its messages is answered by the store.
onSelectThreadQuery ==
  /\ inbox.uid # NoMe
  /\ Cardinality(rt.loads) < MaxLoads
  /\ inbox' = [inbox EXCEPT !.activeThreadId = 1]
  /\ rt' = [rt EXCEPT !.loads = @ \cup {ThreadMessageIds(1)}]
  /\ UNCHANGED <<message_threads, message_thread_participants, messages, msgLog>>
  /\ UNCHANGED <<storeVars, calls, rlsLog, assignVars, resultVars, accountVars, view, chat>>

\* loadThreadMessages after the await: the answer replaces the list, then the
\* thread is marked read and the summaries are re-fetched.
loadThreadMessagesApply(data) ==
  /\ data \in rt.loads
  /\ rt.started < MaxFetches
  /\ rt' = StartReload([rt EXCEPT !.loads = @ \ {data},
                                  !.list = SortById(CHOOSE s \in [1..Cardinality(data) -> data] :
                                                      Ids(s) = data)], FALSE)
  /\ UNCHANGED <<messageVars>>
  /\ UNCHANGED <<storeVars, calls, rlsLog, assignVars, resultVars, accountVars, view, chat>>

\* onMobileBackToInbox: no active thread, an empty list.
onMobileBackToInbox ==
  /\ inbox.activeThreadId # NoThread
  /\ inbox' = [inbox EXCEPT !.activeThreadId = NoThread]
  /\ rt' = [rt EXCEPT !.list = <<>>]
  /\ UNCHANGED <<message_threads, message_thread_participants, messages, msgLog>>
  /\ UNCHANGED <<storeVars, calls, rlsLog, assignVars, resultVars, accountVars, view, chat>>

\* onSendReply up to the await of the insert: the row is stored.
onSendReplyInsert ==
  /\ inbox.uid # NoMe
  /\ inbox.activeThreadId # NoThread
  /\ rt.sending = 0
  /\ Cardinality(messages) < MaxInserts
  /\ InsertMessage(inbox.uid)
  /\ rt' = [rt EXCEPT !.sending = Cardinality(messages) + 1,
                      !.notifs = @ \cup {Cardinality(messages) + 1}]
  /\ UNCHANGED inbox
  /\ UNCHANGED <<storeVars, calls, rlsLog, assignVars, resultVars, accountVars, view, chat>>

\* onSendReply after the await: the inserted row is added to the list, the
\* list is de-duplicated and sorted, and the summaries are re-fetched.
onSendReplyReturn ==
  /\ rt.sending # 0
  /\ rt.started < MaxFetches
  /\ rt' = StartReload([rt EXCEPT !.sending = 0,
                                  !.list = SortById(DedupById(Append(@, rt.sending)))],
                        FALSE)
  /\ UNCHANGED <<messageVars>>
  /\ UNCHANGED <<storeVars, calls, rlsLog, assignVars, resultVars, accountVars, view, chat>>

\* The other participant of the thread sends a message from their own screen.
PeerInsert ==
  /\ Cardinality(messages) < MaxInserts
  /\ InsertMessage("u3")
  /\ rt' = [rt EXCEPT !.notifs = @ \cup {Cardinality(messages) + 1}]
  /\ UNCHANGED inbox
  /\ UNCHANGED <<storeVars, calls, rlsLog, assignVars, resultVars, accountVars, view, chat>>

\* The realtime handler for an insert event on messages: the row is added to
\* the list when its thread is the active one, and the summaries are
\* re-fetched in any case.
onMessageInsert(id) ==
  /\ id \in rt.notifs
  /\ rt.started < MaxFetches
  /\ rt' = StartReload([rt EXCEPT !.notifs = @ \ {id},
                                  !.list = IF inbox.activeThreadId = 1
                                             THEN AppendIfAbsent(@, id) ELSE @], TRUE)
  /\ UNCHANGED <<messageVars>>
  /\ UNCHANGED <<storeVars, calls, rlsLog, assignVars, resultVars, accountVars, view, chat>>

\* reloadSummaries after its awaits: the answer of this request becomes the
\* inbox state (latest message and unread count per thread). newest is the
\* largest answer an event-started request has put there so far.
reloadSummariesApply(f) ==
  /\ f \in rt.fetches
  /\ rt' = [rt EXCEPT !.fetches = @ \ {f}, !.latest = f.slice, !.lastPush = f.push,
                      !.newest = IF f.push THEN @ \cup f.slice ELSE @]
  /\ UNCHANGED <<messageVars>>
  /\ UNCHANGED <<storeVars, calls, rlsLog, assignVars, resultVars, accountVars, view, chat>>

\* The coach's screen is mounted with the thread with the athlete open; the
\* thread has no message yet and nothing is in flight.
InitRealtime ==
  /\ InitProfilesTable
  /\ InitAuthUsers
  /\ calls = 0
  /\ rlsLog = NoLog
  /\ InitAssignScreen
  /\ InitResultScreen
  /\ sessions = {"u1", "u2", "u3"}
  /\ now = 0
  /\ acctLog = NoLog
  /\ InitEmptyMeet
  /\ message_threads = {[id |-> 1, created_by |-> "u1"]}
  /\ message_thread_participants =
       {[thread_id |-> 1, user_id |-> "u1", added_by |-> "u1"],
        [thread_id |-> 1, user_id |-> "u3", added_by |-> "u1"]}
  /\ messages = {}
  /\ inbox = [Bootstrap("u1", NoThread, message_threads, message_thread_participants)
                EXCEPT !.activeThreadId = 1]
  /\ msgLog = NoLog
  /\ view = NoLog
  /\ chat = ChatIdle
  /\ rt = RtIdle

NextRealtime ==
  \/ onSelectThreadQuery
  \/ \E data \in SUBSET (1..MaxInserts) : loadThreadMessagesApply(data)
  \/ onMobileBackToInbox
  \/ onSendReplyInsert
  \/ onSendReplyReturn
  \/ PeerInsert
  \/ \E id \in 1..MaxInserts : onMessageInsert(id)
  \/ \E f \in rt.fetches : reloadSummariesApply(f)

SpecRealtime == InitRealtime /\ [][NextRealtime]_vars

(* ------------------------------------------------------------------ *)
(* Claims on the messages screen under push events (SpecRealtime)      *)
(* ------------------------------------------------------------------ *)

\* C27: the inbox state put there by a summary re-fetch that an insert event
\* started is never older than what such a re-fetch had put there before.
C27_NoOlderRefetchApplied ==
  rt.lastPush => rt.newest \subseteq rt.latest

\* C28: the list shown never holds a message id twice; and a message is in the
\* list exactly once right after the send call returned and right after its
\* insert event was handled for the active thread, whichever came first.
C28_NoDuplicateMessageIds ==
  /\ [](\A id \in Ids(rt.list) : Count(rt.list, id) = 1)
  /\ [][(rt.sending # 0 /\ rt'.sending = 0) => Count(rt'.list, rt.sending) = 1]_vars
  /\ [][\A id \in rt.notifs \ rt'.notifs :
          inbox.activeThreadId = 1 => Count(rt'.list, id) = 1]_vars

\* The coach's own message is in the list once, after both the send call
\* returned and its insert event was handled, with the thread still open.
C28_Witness ==
  /\ \E m \in messages : m.sender_user_id = inbox.uid /\ Count(rt.list, m.id) = 1
                           /\ m.id \notin rt.notifs /\ rt.sending = 0
  /\ inbox.activeThreadId = 1
  /\ rt.started >= 2

====
